---- MODULE Spec2Model ----
(***************************************************************************)
(* A model of img-converter's built-in codec core: the overflow-checked    *)
(* size arithmetic (lib/checked_arith.h), the pixel-buffer helpers, and    *)
(* the QOI and BMP readers and writers (img-converter.c).                  *)
(*                                                                         *)
(* Integer widths.  TLC's integers stop at 2^31-1, so the C types are      *)
(* modelled with scaled widths: int / int32_t / uint32_t have IntBits      *)
(* bits, and size_t has either IntBits bits (a platform where size_t is    *)
(* as wide as int) or 2*IntBits bits (size_t twice as wide as int).  The   *)
(* platform is the variable size_max, fixed by Init.  File layouts keep    *)
(* their real sizes (4-byte fields, 14- and 54-byte headers); the fields   *)
(* hold values of the scaled range.                                        *)
(***************************************************************************)
EXTENDS Integers, Sequences, FiniteSets, TLC

(* ---------------------------------------------------------------- bounds *)

\* Width of int, int32_t and uint32_t in the model.
IntBits == 8
\* Width of size_t in the specification of the pure arithmetic functions,
\* where every pair of operands is tried.
ArithBits == 5
\* Number of freely chosen pixels that follow a short leading run of an image.
MaxTail == 2
\* Number of freely chosen pixels that follow a long leading run of an image.
MaxLongTail == 1
\* Number of ops in the op streams of the QOI files that are read.
MaxOps == 2
\* The smaller of the two non-zero values of --max-bytes in the conversions.
MaxBytes == 16

INT_MAX == 2^(IntBits - 1) - 1
INT32_MIN == -(2^(IntBits - 1))
UINT32_MAX == 2^IntBits - 1
SizeMaxNarrow == 2^IntBits - 1
SizeMaxWide == 2^(2 * IntBits) - 1

VARIABLES
    size_max,    \* SIZE_MAX of the platform
    max_pixels,  \* static size_t max_pixels
    pc,          \* position of the program
    ret,         \* what the last function to return returned, and where from
    src,         \* the struct image handed to a writer
    file,        \* the bytes of the file a writer wrote / a reader reads
    img,         \* the struct image a reader fills
    heap,        \* the pixel buffer behind img.pixels
    wr,          \* locals of the running writer
    rd,          \* locals of the running reader
    ar,          \* operands and result of a checked_arith.h call
    mn           \* main: its options, its input and output, its locals

vars == <<size_max, max_pixels, pc, ret, src, file, img, heap, wr, rd, ar, mn>>

SIZE_MAX == size_max

(* ------------------------------------------------------ checked_arith.h *)

\* (size_t)x for an int x: reduction modulo SIZE_MAX + 1.
ToSize(x) == x % (SIZE_MAX + 1)

\* A buggy variant: the product is stored without the range test.
checked_mul_size_wrap(a, b, out) ==
    [ok |-> TRUE, out |-> (a * b) % (SIZE_MAX + 1)]

\* checked_mul_size(a, b, &out): out is the value *out held before the call.
checked_mul_size(a, b, out) ==
    IF a = 0 \/ b <= SIZE_MAX \div a
    THEN [ok |-> TRUE, out |-> (a * b) % (SIZE_MAX + 1)]
    ELSE [ok |-> FALSE, out |-> out]

\* A buggy variant: the sum is stored without the range test.
checked_add_size_wrap(a, b, out) ==
    [ok |-> TRUE, out |-> (a + b) % (SIZE_MAX + 1)]

\* checked_add_size(a, b, &out)
checked_add_size(a, b, out) ==
    IF a <= SIZE_MAX - b
    THEN [ok |-> TRUE, out |-> (a + b) % (SIZE_MAX + 1)]
    ELSE [ok |-> FALSE, out |-> out]

(* ------------------------------------------------------- idle defaults *)

NoRet == [fn |-> "none", ok |-> FALSE, at |-> "none"]
NoSrc == [pixels |-> <<>>, width |-> 0, height |-> 0, channels |-> 0]
\* struct image img = {0}
ZeroImg == [pixels |-> "NULL", width |-> 0, height |-> 0, channels |-> 0]
\* state: "none" (never allocated), "live" or "freed"; mallocs and frees count
\* the calls of malloc and free for the pixel buffer.
\* oob records a write outside the buffer.
NoHeap == [state |-> "none", size |-> 0, data |-> <<>>, mallocs |-> 0, frees |-> 0,
           oob |-> FALSE]
NoLocals == [fn |-> "none"]
NoAr == [op |-> "none"]
NoMain == [stage |-> "none"]

(* ------------------------------------- specification of the arithmetic *)

ArithInit ==
    /\ size_max = 2^ArithBits - 1
    /\ max_pixels = 0
    /\ pc = "arith"
    /\ ret = NoRet
    /\ src = NoSrc
    /\ file = <<>>
    /\ img = ZeroImg
    /\ heap = NoHeap
    /\ wr = NoLocals
    /\ rd = NoLocals
    /\ ar \in [op : {"mul", "add"}, a : 0..(2^ArithBits - 1), b : 0..(2^ArithBits - 1),
               out0 : {0, 2^ArithBits - 1}, out : {-1}, ok : {FALSE}]
    /\ ar.out = -1
    /\ mn = NoMain

\* A caller runs checked_mul_size(a, b, &out) with out holding out0.
CallCheckedMul ==
    /\ pc = "arith"
    /\ ar.op = "mul"
    /\ LET r == checked_mul_size(ar.a, ar.b, ar.out0)
       IN ar' = [ar EXCEPT !.out = r.out, !.ok = r.ok]
    /\ pc' = "arith_done"
    /\ UNCHANGED <<size_max, max_pixels, ret, src, file, img, heap, wr, rd, mn>>

\* A caller runs checked_add_size(a, b, &out) with out holding out0.
CallCheckedAdd ==
    /\ pc = "arith"
    /\ ar.op = "add"
    /\ LET r == checked_add_size(ar.a, ar.b, ar.out0)
       IN ar' = [ar EXCEPT !.out = r.out, !.ok = r.ok]
    /\ pc' = "arith_done"
    /\ UNCHANGED <<size_max, max_pixels, ret, src, file, img, heap, wr, rd, mn>>

ArithNext == CallCheckedMul \/ CallCheckedAdd

SpecArith == ArithInit /\ [][ArithNext]_vars

(* C9: checked_mul_size returns true and stores exactly a*b when the       *)
(* mathematical product fits in size_t, and returns false leaving out as   *)
(* it was when it does not; a wrapped product is never stored.             *)
C9_CheckedMulExact ==
    (pc = "arith_done" /\ ar.op = "mul") =>
        /\ (ar.a * ar.b <= SIZE_MAX) => (ar.ok /\ ar.out = ar.a * ar.b)
        /\ (ar.a * ar.b > SIZE_MAX) => (~ar.ok /\ ar.out = ar.out0)

\* An overflowing product was refused, and out kept its old (non-zero) value.
C9_Witness ==
    /\ pc = "arith_done" /\ ar.op = "mul"
    /\ ar.a * ar.b > SIZE_MAX /\ ~ar.ok /\ ar.out = ar.out0 /\ ar.out0 # 0
    /\ (ar.a * ar.b) % (SIZE_MAX + 1) # ar.out0

(* C10: checked_add_size returns true and stores exactly a+b when the      *)
(* mathematical sum fits in size_t, and returns false leaving out as it    *)
(* was when it does not; a wrapped sum is never stored.                    *)
C10_CheckedAddExact ==
    (pc = "arith_done" /\ ar.op = "add") =>
        /\ (ar.a + ar.b <= SIZE_MAX) => (ar.ok /\ ar.out = ar.a + ar.b)
        /\ (ar.a + ar.b > SIZE_MAX) => (~ar.ok /\ ar.out = ar.out0)

\* An overflowing sum was refused, and out kept its old (non-zero) value.
C10_Witness ==
    /\ pc = "arith_done" /\ ar.op = "add"
    /\ ar.a + ar.b > SIZE_MAX /\ ~ar.ok /\ ar.out = ar.out0 /\ ar.out0 # 0
    /\ (ar.a + ar.b) % (SIZE_MAX + 1) # ar.out0

(* ------------------------------------------------- pixel-buffer helpers *)

\* The content of a byte malloc returned and nobody wrote yet.
Uninit == -1

\* heap after img->pixels = malloc(n): m says whether malloc found memory.
Malloc(h, n, m) ==
    IF m
    THEN [h EXCEPT !.state = "live", !.size = n, !.data = [i \in 1..n |-> Uninit],
                   !.mallocs = @ + 1]
    ELSE [h EXCEPT !.mallocs = @ + 1]

\* heap after free(img->pixels) of a buffer that malloc returned.
Free(h) == [h EXCEPT !.state = "freed", !.frees = @ + 1]

image_validate_dims(im) ==
    im.width > 0 /\ im.height > 0 /\ (im.channels = 3 \/ im.channels = 4)

\* A buggy variant: a pixel count equal to the ceiling is refused.
image_check_max_pixels_lt(width, height) ==
    LET pixel_count == checked_mul_size(ToSize(width), ToSize(height), 0)
    IN IF ~pixel_count.ok THEN FALSE
       ELSE max_pixels = 0 \/ pixel_count.out < max_pixels

image_check_max_pixels(width, height) ==
    LET pixel_count == checked_mul_size(ToSize(width), ToSize(height), 0)
    IN IF ~pixel_count.ok THEN FALSE
       ELSE max_pixels = 0 \/ pixel_count.out <= max_pixels

\* A buggy variant: the total is the wrapped product and nothing is checked
\* but the dimensions.
image_alloc_pixels_wrap(im, rowbytes, m) ==
    IF ~image_validate_dims(im) \/ rowbytes = 0
    THEN [ok |-> FALSE, at |-> "dims", called |-> FALSE, total |-> 0]
    ELSE [ok |-> m, at |-> IF m THEN "ok" ELSE "malloc", called |-> TRUE,
          total |-> (rowbytes * ToSize(im.height)) % (SIZE_MAX + 1)]

\* image_alloc_pixels(img, rowbytes): what it returns, the return statement
\* it leaves by, whether it called malloc and with which size.  m is
\* malloc's answer.
image_alloc_pixels(im, rowbytes, m) ==
    IF ~image_validate_dims(im) \/ rowbytes = 0
    THEN [ok |-> FALSE, at |-> "dims", called |-> FALSE, total |-> 0]
    ELSE IF ~image_check_max_pixels(im.width, im.height)
    THEN [ok |-> FALSE, at |-> "max_pixels", called |-> FALSE, total |-> 0]
    ELSE LET total == checked_mul_size(rowbytes, ToSize(im.height), 0)
         IN IF ~total.ok
            THEN [ok |-> FALSE, at |-> "overflow", called |-> FALSE, total |-> 0]
            ELSE [ok |-> m, at |-> IF m THEN "ok" ELSE "malloc", called |-> TRUE,
                  total |-> total.out]

(* ------------------------------------- specification of the allocation *)

\* 2^ceil(IntBits/2): the square of it is the first one size_t of IntBits
\* bits cannot hold (65536 for 32 bits).
HalfWord == 2^((IntBits + 1) \div 2)

AllocDims == {-1, 0, 1, 2, HalfWord - 1, HalfWord, INT_MAX}

AllocInit ==
    /\ size_max \in {SizeMaxNarrow, SizeMaxWide}
    /\ max_pixels \in {0, 2, HalfWord * HalfWord}
    /\ pc = "alloc"
    /\ ret = NoRet
    /\ src = NoSrc
    /\ file = <<>>
    /\ \E w \in AllocDims, h \in AllocDims, c \in {1, 3, 4} :
          /\ img = [pixels |-> "NULL", width |-> w, height |-> h, channels |-> c]
          /\ \E rb \in {0, 1, 4 * HalfWord, SIZE_MAX, (w * c) % (SIZE_MAX + 1)} :
                rd = [fn |-> "image_alloc_pixels", rowbytes |-> rb]
    /\ heap = NoHeap
    /\ wr = NoLocals
    /\ ar = NoAr
    /\ mn = NoMain

\* A decoder calls image_alloc_pixels(&img, rowbytes).
CallImageAllocPixels ==
    /\ pc = "alloc"
    /\ \E m \in BOOLEAN :
          LET r == image_alloc_pixels(img, rd.rowbytes, m)
          IN /\ ret' = [fn |-> "image_alloc_pixels", ok |-> r.ok, at |-> r.at]
             /\ heap' = IF r.called THEN Malloc(heap, r.total, m) ELSE heap
             /\ img' = IF r.called
                       THEN [img EXCEPT !.pixels = IF m THEN "buf" ELSE "NULL"]
                       ELSE img
    /\ pc' = "alloc_done"
    /\ UNCHANGED <<size_max, max_pixels, src, file, wr, rd, ar, mn>>

AllocNext == CallImageAllocPixels

SpecAlloc == AllocInit /\ [][AllocNext]_vars

(* C6: where size_t is as wide as int, image_alloc_pixels refuses          *)
(* width = height = 2^ceil(IntBits/2), channels = 4, rowbytes = 4*width    *)
(* (65536 x 65536 x 4 for 32 bits) without calling malloc; and whenever it *)
(* does allocate, the buffer holds exactly rowbytes*height bytes, the      *)
(* product taken in the integers, never a wrapped one.                     *)
C6_OverflowGuard ==
    (pc = "alloc_done") =>
        /\ ( /\ size_max = SizeMaxNarrow
             /\ img.width = HalfWord /\ img.height = HalfWord /\ img.channels = 4
             /\ rd.rowbytes = 4 * HalfWord )
           => (~ret.ok /\ heap.mallocs = 0 /\ img.pixels = "NULL")
        /\ (heap.mallocs > 0) =>
              /\ rd.rowbytes * img.height <= SIZE_MAX
              /\ (heap.state = "live" => heap.size = rd.rowbytes * img.height)
        /\ ret.ok => (heap.state = "live" /\ img.pixels = "buf")

\* The 65536 x 65536 x 4 request (scaled) was made with the ceiling disabled
\* and refused.
C6_Witness ==
    /\ pc = "alloc_done" /\ size_max = SizeMaxNarrow /\ max_pixels = 0
    /\ img.width = HalfWord /\ img.height = HalfWord /\ img.channels = 4
    /\ rd.rowbytes = 4 * HalfWord
    /\ ~ret.ok /\ heap.mallocs = 0

\* What the caller has of a call image_alloc_pixels(&img, rowbytes) made
\* with img.pixels == NULL: the bool returned and img.pixels afterwards.
AllocResult(im, rowbytes, m) ==
    LET r == image_alloc_pixels(im, rowbytes, m)
    IN << r.ok, IF r.called /\ m THEN "buf" ELSE "NULL" >>

(* C11: distinguishable errors.  Two calls of image_alloc_pixels that fail *)
(* by different causes (invalid dimensions, pixel ceiling, overflow of     *)
(* rowbytes*height, malloc) give the caller different results: the call    *)
(* that was made differs in its result from every call failing otherwise.  *)
C11_DistinguishableErrors ==
    (pc = "alloc_done" /\ ~ret.ok) =>
        \A w \in AllocDims, h \in AllocDims, c \in {1, 3, 4},
           rb \in {0, 1, 4 * HalfWord}, m \in BOOLEAN :
            LET im == [pixels |-> "NULL", width |-> w, height |-> h, channels |-> c]
                r == image_alloc_pixels(im, rb, m)
            IN (~r.ok /\ r.at # ret.at)
                  => AllocResult(im, rb, m) # << ret.ok, img.pixels >>

\* Calls have failed by each of the four causes.
AllocFailedByDims == pc = "alloc_done" /\ ~ret.ok /\ ret.at = "dims"
AllocFailedByCeiling ==
    pc = "alloc_done" /\ ~ret.ok /\ ret.at = "max_pixels"
       /\ img.width * img.height <= SIZE_MAX
AllocFailedByOverflow == pc = "alloc_done" /\ ~ret.ok /\ ret.at = "overflow"
AllocFailedByMalloc == pc = "alloc_done" /\ ~ret.ok /\ ret.at = "malloc"

(* ----------------------------------------------------------- bit helpers *)

RECURSIVE BitOr(_, _)
\* a | b for non-negative a and b
BitOr(a, b) ==
    IF a = 0 THEN b
    ELSE IF b = 0 THEN a
    ELSE (IF a % 2 = 1 \/ b % 2 = 1 THEN 1 ELSE 0) + 2 * BitOr(a \div 2, b \div 2)

RECURSIVE BitAnd(_, _)
\* a & b for non-negative a and b
BitAnd(a, b) ==
    IF a = 0 \/ b = 0 THEN 0
    ELSE (IF a % 2 = 1 /\ b % 2 = 1 THEN 1 ELSE 0) + 2 * BitAnd(a \div 2, b \div 2)

\* (uint8_t)x
U8(x) == x % 256

(* ------------------------------------------------------------------ QOI *)

QOI_OP_INDEX == 0
QOI_OP_DIFF == 64
QOI_OP_LUMA == 128
QOI_OP_RUN == 192
QOI_OP_RGB == 254
QOI_OP_RGBA == 255
QOI_MASK_2 == 192
\* 0x716f6966, "qoif"
QOI_MAGIC == 1903126886
QOI_HEADER_SIZE == 14
QOI_END_MARKER_SIZE == 8

\* The four bytes at p[1..4] read as a big-endian number.
qoi_read32be(p) == p[1] * 16777216 + p[2] * 65536 + p[3] * 256 + p[4]

\* The four bytes qoi_write32be stores for v.
qoi_write32be(v) ==
    << (v \div 16777216) % 256, (v \div 65536) % 256, (v \div 256) % 256, v % 256 >>

\* A buggy variant: the weights of green and blue are swapped.
qoi_hash_swapped(r, g, b, a) == (r * 3 + g * 7 + b * 5 + a * 11) % 64

qoi_hash(r, g, b, a) == (r * 3 + g * 5 + b * 7 + a * 11) % 64

PxHash(px) == qoi_hash(px[1], px[2], px[3], px[4])

\* uint8_t index[64][4] = {0}
ZeroIndex == [k \in 0..63 |-> <<0, 0, 0, 0>>]
\* uint8_t px[4] = {0, 0, 0, 255}
StartPx == <<0, 0, 0, 255>>

(* -------------------------------------------------------------- qoi_write *)

\* A buggy variant: no room for the op byte of a pixel.
qoi_per_pixel_raw(channels) == channels

\* size_t per_pixel = (size_t)img->channels + 1
qoi_per_pixel(channels) == channels + 1

\* The checks and size computations qoi_write makes before its loop: the
\* return statement it fails by ("ok" when it goes on), and the sizes.
\* m is malloc's answer for the output buffer.
qoi_write_sizes(im, m) ==
    IF ~image_validate_dims(im)
    THEN [at |-> "dims", pixel_count |-> 0, max_size |-> 0]
    ELSE LET pixel_count == checked_mul_size(ToSize(im.width), ToSize(im.height), 0)
             per_pixel == qoi_per_pixel(ToSize(im.channels))
             data_bytes == checked_mul_size(pixel_count.out, per_pixel, 0)
             max_size1 == checked_add_size(QOI_HEADER_SIZE, data_bytes.out, 0)
             max_size == checked_add_size(max_size1.out, QOI_END_MARKER_SIZE, max_size1.out)
         IN IF ~pixel_count.ok \/ ~data_bytes.ok \/ ~max_size1.ok \/ ~max_size.ok
            THEN [at |-> "overflow", pixel_count |-> 0, max_size |-> 0]
            ELSE IF ~m
            THEN [at |-> "malloc", pixel_count |-> 0, max_size |-> 0]
            ELSE [at |-> "ok", pixel_count |-> pixel_count.out, max_size |-> max_size.out]

\* qoi_write up to the loop: checks, malloc of the output buffer, the header.
QoiWriteBegin ==
    /\ pc = "qoi_write"
    /\ \E m \in BOOLEAN :
          LET s == qoi_write_sizes(src, m)
          IN IF s.at # "ok"
             THEN /\ pc' = "ret"
                  /\ ret' = [fn |-> "qoi_write", ok |-> FALSE, at |-> s.at]
                  /\ wr' = wr
             ELSE /\ pc' = "qw_loop"
                  /\ ret' = ret
                  /\ wr' = [fn |-> "qoi_write",
                            pixel_count |-> s.pixel_count,
                            max_size |-> s.max_size,
                            data |-> qoi_write32be(QOI_MAGIC)
                                     \o qoi_write32be(src.width)
                                     \o qoi_write32be(src.height)
                                     \o <<U8(src.channels), 1>>,
                            index |-> ZeroIndex,
                            px |-> StartPx,
                            px_prev |-> StartPx,
                            p |-> QOI_HEADER_SIZE,
                            run |-> 0,
                            i |-> 0]
    /\ UNCHANGED <<size_max, max_pixels, src, file, img, heap, rd, ar, mn>>

\* A buggy variant: a run is cut at 63 instead of 62.
QoiRunFull_63(run) == run = 63

\* run == 62
QoiRunFull(run) == run = 62

\* A buggy variant: a change of alpha is not looked at, the pixel goes out as RGB.
qoi_encode_miss_rgb(px, px_prev) == << QOI_OP_RGB, px[1], px[2], px[3] >>

\* The bytes the encoder emits for a pixel px that differs from px_prev and
\* misses the cache (the branch that starts with memcpy(index[idx], px, 4)).
qoi_encode_miss(px, px_prev) ==
    IF px[4] = px_prev[4]
    THEN LET vr == px[1] - px_prev[1]
             vg == px[2] - px_prev[2]
             vb == px[3] - px_prev[3]
             vg_r == vr - vg
             vg_b == vb - vg
         IN IF vr > -3 /\ vr < 2 /\ vg > -3 /\ vg < 2 /\ vb > -3 /\ vb < 2
            THEN << U8(BitOr(BitOr(BitOr(QOI_OP_DIFF, (vr + 2) * 16), (vg + 2) * 4), vb + 2)) >>
            ELSE IF vg_r > -9 /\ vg_r < 8 /\ vg > -33 /\ vg < 32 /\ vg_b > -9 /\ vg_b < 8
            THEN << U8(BitOr(QOI_OP_LUMA, vg + 32)),
                    U8(BitOr((vg_r + 8) * 16, vg_b + 8)) >>
            ELSE << QOI_OP_RGB, px[1], px[2], px[3] >>
    ELSE << QOI_OP_RGBA, px[1], px[2], px[3], px[4] >>

\* One iteration of qoi_write's loop over the pixels: the locals after it.
qoi_write_step(w, im) ==
    LET ch == im.channels
        px0 == [k \in 1..4 |-> IF k <= ch THEN im.pixels[w.i * ch + k] ELSE w.px[k]]
        px == IF ch = 3 THEN [px0 EXCEPT ![4] = 255] ELSE px0
    IN IF px = w.px_prev
       THEN LET run == w.run + 1
                flush == QoiRunFull(run) \/ w.i = w.pixel_count - 1
            IN [w EXCEPT !.px = px, !.px_prev = px, !.i = @ + 1,
                         !.run = IF flush THEN 0 ELSE run,
                         !.data = IF flush
                                  THEN Append(@, U8(BitOr(QOI_OP_RUN, run - 1)))
                                  ELSE @,
                         !.p = IF flush THEN @ + 1 ELSE @]
       ELSE LET runb == IF w.run > 0 THEN << U8(BitOr(QOI_OP_RUN, w.run - 1)) >> ELSE <<>>
                idx == PxHash(px)
                hit == w.index[idx] = px
                opb == IF hit THEN << U8(BitOr(QOI_OP_INDEX, idx)) >>
                       ELSE qoi_encode_miss(px, w.px_prev)
            IN [w EXCEPT !.px = px, !.px_prev = px, !.i = @ + 1,
                         !.run = 0,
                         !.index = IF hit THEN @ ELSE [@ EXCEPT ![idx] = px],
                         !.data = @ \o runb \o opb,
                         !.p = @ + Len(runb) + Len(opb)]

\* One iteration of the loop for (i = 0; i < pixel_count; i++).
QoiWritePixel ==
    /\ pc = "qw_loop"
    /\ wr.i < wr.pixel_count
    /\ wr' = qoi_write_step(wr, src)
    /\ UNCHANGED <<size_max, max_pixels, pc, ret, src, file, img, heap, rd, ar, mn>>

\* After the loop: the end marker, fopen, the write, free(data).  io is what
\* the file system does: "ok", "fopen" (fopen fails) or "short" (a short write).
QoiWriteEnd ==
    /\ pc = "qw_loop"
    /\ wr.i >= wr.pixel_count
    /\ \E io \in {"ok", "fopen", "short"} :
          LET data == wr.data \o <<0, 0, 0, 0, 0, 0, 0, 1>>
              p == wr.p + 8
          IN /\ wr' = [wr EXCEPT !.data = data, !.p = p]
             /\ file' = IF io = "ok" THEN SubSeq(data, 1, p)
                        ELSE IF io = "short" THEN SubSeq(data, 1, p - 1)
                        ELSE file
             /\ ret' = [fn |-> "qoi_write", ok |-> io = "ok", at |-> io]
    /\ pc' = "ret"
    /\ UNCHANGED <<size_max, max_pixels, src, img, heap, rd, ar, mn>>

(* --------------------------------------------------------------- qoi_read *)

\* A buggy variant: only the first three bytes of the magic are compared.
qoi_magic_ok_3(f) == SubSeq(f, 1, 3) = SubSeq(qoi_write32be(QOI_MAGIC), 1, 3)

\* qoi_read32be(header) != QOI_MAGIC, negated
qoi_magic_ok(f) == qoi_read32be(SubSeq(f, 1, 4)) = QOI_MAGIC

\* qoi_read from fopen to the malloc of the pixel buffer, for a file with
\* bytes f: the return statement it fails by ("ok" when it goes on to the
\* loop), the fields of img it has assigned by then, whether malloc was
\* called and the sizes.  m is malloc's answer.
qoi_read_header(f, m) ==
    LET none == [at |-> "header", channels |-> 0, set_channels |-> FALSE,
                 width |-> 0, height |-> 0, set_dims |-> FALSE, called |-> FALSE,
                 pixel_count |-> 0, pixel_bytes |-> 0]
    IN IF Len(f) < QOI_HEADER_SIZE THEN none
       ELSE IF ~qoi_magic_ok(f) THEN [none EXCEPT !.at = "magic"]
       ELSE LET width == qoi_read32be(SubSeq(f, 5, 8))
                height == qoi_read32be(SubSeq(f, 9, 12))
                h1 == [none EXCEPT !.channels = f[13], !.set_channels = TRUE]
            IN IF width = 0 \/ height = 0 \/ width > INT_MAX \/ height > INT_MAX
               THEN [h1 EXCEPT !.at = "dims"]
               ELSE IF f[13] # 3 /\ f[13] # 4
               THEN [h1 EXCEPT !.at = "channels"]
               ELSE LET pixel_count == checked_mul_size(ToSize(width), ToSize(height), 0)
                        pixel_bytes == checked_mul_size(pixel_count.out, ToSize(f[13]), 0)
                        h2 == [h1 EXCEPT !.width = width, !.height = height,
                                         !.set_dims = TRUE]
                    IN IF ~pixel_count.ok \/ ~pixel_bytes.ok
                       THEN [h1 EXCEPT !.at = "overflow"]
                       ELSE IF ~image_check_max_pixels(width, height)
                       THEN [h2 EXCEPT !.at = "max_pixels"]
                       ELSE [h2 EXCEPT !.at = IF m THEN "ok" ELSE "malloc",
                                       !.called = TRUE,
                                       !.pixel_count = pixel_count.out,
                                       !.pixel_bytes = pixel_bytes.out]

\* qoi_read up to its loop.  open says whether fopen succeeds.
QoiReadBegin ==
    /\ pc = "qoi_read"
    /\ \E open \in BOOLEAN, m \in BOOLEAN :
          IF ~open
          THEN /\ pc' = "ret"
               /\ ret' = [fn |-> "qoi_read", ok |-> FALSE, at |-> "fopen"]
               /\ UNCHANGED <<img, heap, rd>>
          ELSE LET h == qoi_read_header(file, m)
               IN /\ img' = [pixels |-> IF h.called
                                        THEN (IF m THEN "buf" ELSE "NULL")
                                        ELSE img.pixels,
                             width |-> IF h.set_dims THEN h.width ELSE img.width,
                             height |-> IF h.set_dims THEN h.height ELSE img.height,
                             channels |-> IF h.set_channels THEN h.channels
                                          ELSE img.channels]
                  /\ heap' = IF h.called THEN Malloc(heap, h.pixel_bytes, m) ELSE heap
                  /\ IF h.at = "ok"
                     THEN /\ pc' = "qr_loop"
                          /\ ret' = ret
                          /\ rd' = [fn |-> "qoi_read",
                                    pos |-> QOI_HEADER_SIZE,
                                    index |-> ZeroIndex,
                                    px |-> StartPx,
                                    px_pos |-> 0,
                                    px_end |-> (h.pixel_count * ToSize(h.channels))
                                               % (SIZE_MAX + 1),
                                    ops |-> 0]
                     ELSE /\ pc' = "ret"
                          /\ ret' = [fn |-> "qoi_read", ok |-> FALSE, at |-> h.at]
                          /\ rd' = rd
    /\ UNCHANGED <<size_max, max_pixels, src, file, wr, ar, mn>>

\* heap after memcpy(img->pixels + pos, px, channels); a byte that falls
\* outside the buffer is recorded in oob.
WritePx(h, pos, px, ch) ==
    [h EXCEPT !.data = [i \in 1..Len(@) |->
                          IF pos < i /\ i <= pos + ch THEN px[i - pos] ELSE @[i]],
              !.oob = @ \/ pos + ch > h.size \/ h.state # "live"]

\* A buggy variant: the 6-bit field is taken for the length of the run.
qoi_run_length_raw(b1) == BitAnd(b1, 63)

\* int run = (b1 & 0x3f) + 1
qoi_run_length(b1) == BitAnd(b1, 63) + 1

RECURSIVE qoi_run_loop_unchecked(_, _, _, _, _, _)
\* A buggy variant: the run is written out whatever room is left.
qoi_run_loop_unchecked(run, h, px_pos, px_end, px, ch) ==
    IF run > 0
    THEN qoi_run_loop_unchecked(run - 1, WritePx(h, px_pos, px, ch), px_pos + ch,
                                px_end, px, ch)
    ELSE [heap |-> h, px_pos |-> px_pos]

RECURSIVE qoi_run_loop(_, _, _, _, _, _)
\* while (run-- > 0 && px_pos < px_end) { memcpy(...); px_pos += channels; }
\* gives the heap and px_pos after the loop.
qoi_run_loop(run, h, px_pos, px_end, px, ch) ==
    IF run > 0 /\ px_pos < px_end
    THEN qoi_run_loop(run - 1, WritePx(h, px_pos, px, ch), px_pos + ch, px_end, px, ch)
    ELSE [heap |-> h, px_pos |-> px_pos]

\* The number of payload bytes the op with first byte b1 reads after b1.
qoi_payload(b1) ==
    IF b1 = QOI_OP_RGB THEN 3
    ELSE IF b1 = QOI_OP_RGBA THEN 4
    ELSE IF BitAnd(b1, QOI_MASK_2) = QOI_OP_LUMA THEN 1
    ELSE 0

\* px after the op with first byte b1 and payload bytes pl (not for RUN).
qoi_decode_px(b1, pl, px, index) ==
    IF b1 = QOI_OP_RGB THEN << pl[1], pl[2], pl[3], px[4] >>
    ELSE IF b1 = QOI_OP_RGBA THEN << pl[1], pl[2], pl[3], pl[4] >>
    ELSE IF BitAnd(b1, QOI_MASK_2) = QOI_OP_INDEX THEN index[b1]
    ELSE IF BitAnd(b1, QOI_MASK_2) = QOI_OP_DIFF
    THEN << U8(px[1] + BitAnd(b1 \div 16, 3) - 2),
            U8(px[2] + BitAnd(b1 \div 4, 3) - 2),
            U8(px[3] + BitAnd(b1, 3) - 2),
            px[4] >>
    ELSE IF BitAnd(b1, QOI_MASK_2) = QOI_OP_LUMA
    THEN LET vg == BitAnd(b1, 63) - 32
         IN << U8(px[1] + vg - 8 + BitAnd(pl[1] \div 16, 15)),
               U8(px[2] + vg),
               U8(px[3] + vg - 8 + BitAnd(pl[1], 15)),
               px[4] >>
    ELSE px

\* A buggy variant: the loop takes one more op when the image is complete.
qoi_loop_runs_le(px_pos, px_end) == px_pos <= px_end

\* while (px_pos < px_end)
qoi_loop_runs(px_pos, px_end) == px_pos < px_end

\* A buggy variant: the decoded pixel is never stored in the cache.
qoi_index_store_never(index, px) == index

\* memcpy(index[qoi_hash(px[0], px[1], px[2], px[3])], px, 4)
qoi_index_store(index, px) == [index EXCEPT ![PxHash(px)] = px]

\* One iteration of while (px_pos < px_end): it reads one op and either
\* fails on a short read (freeing the pixel buffer) or emits pixels.
QoiReadOp ==
    /\ pc = "qr_loop"
    /\ qoi_loop_runs(rd.px_pos, rd.px_end)
    /\ LET avail == Len(file) - rd.pos
           b1 == file[rd.pos + 1]
           need == qoi_payload(b1)
       IN IF avail < 1 \/ avail - 1 < need
          THEN /\ heap' = Free(heap)
               /\ rd' = [rd EXCEPT !.pos = Len(file)]
               /\ pc' = "ret"
               /\ ret' = [fn |-> "qoi_read", ok |-> FALSE, at |-> "eof"]
          ELSE LET pl == SubSeq(file, rd.pos + 2, rd.pos + 1 + need)
                   pos == rd.pos + 1 + need
               IN IF b1 # QOI_OP_RGB /\ b1 # QOI_OP_RGBA
                     /\ BitAnd(b1, QOI_MASK_2) = QOI_OP_RUN
                  THEN LET r == qoi_run_loop(qoi_run_length(b1), heap, rd.px_pos,
                                             rd.px_end, rd.px, img.channels)
                       IN /\ heap' = r.heap
                          /\ rd' = [rd EXCEPT !.pos = pos, !.px_pos = r.px_pos,
                                              !.ops = @ + 1]
                          /\ UNCHANGED <<pc, ret>>
                  ELSE LET px == qoi_decode_px(b1, pl, rd.px, rd.index)
                       IN /\ heap' = WritePx(heap, rd.px_pos, px, img.channels)
                          /\ rd' = [rd EXCEPT !.pos = pos, !.px = px,
                                              !.index = qoi_index_store(@, px),
                                              !.px_pos = @ + img.channels,
                                              !.ops = @ + 1]
                          /\ UNCHANGED <<pc, ret>>
    /\ UNCHANGED <<size_max, max_pixels, src, file, img, wr, ar, mn>>

\* The loop is over: fclose(f); return true.
QoiReadEnd ==
    /\ pc = "qr_loop"
    /\ ~qoi_loop_runs(rd.px_pos, rd.px_end)
    /\ pc' = "ret"
    /\ ret' = [fn |-> "qoi_read", ok |-> TRUE, at |-> "ok"]
    /\ UNCHANGED <<size_max, max_pixels, src, file, img, heap, wr, rd, ar, mn>>

(* ------------------------------------------------------------------ BMP *)

\* 0x4D42, "BM"
BMP_MAGIC == 19778
\* sizeof(struct bmp_file_header)
BMP_FH_SIZE == 14
\* sizeof(struct bmp_info_header)
BMP_IH_SIZE == 40

\* The bytes of a uint16_t field in the packed structs (the host is
\* little-endian: the structs are written and read as they lie in memory).
le16(v) == << v % 256, (v \div 256) % 256 >>

\* The bytes of a uint32_t or int32_t field (two's complement).
le32(v) == << v % 256, (v \div 256) % 256, (v \div 65536) % 256, (v \div 16777216) % 256 >>

\* The uint16_t at p[1..2].
rd16(p) == p[1] + 256 * p[2]

\* The uint32_t at p[1..4].
rd32u(p) == p[1] + 256 * p[2] + 65536 * p[3] + 16777216 * p[4]

\* The int32_t at p[1..4].
rd32s(p) ==
    p[1] + 256 * p[2] + 65536 * p[3] + 16777216 * (IF p[4] >= 128 THEN p[4] - 256 ELSE p[4])

\* struct bmp_file_header as bytes
bmp_file_header(type, size, offset) ==
    le16(type) \o le32(size) \o le16(0) \o le16(0) \o le32(offset)

\* struct bmp_info_header as bytes
bmp_info_header(size, width, height, planes, bit_count, compression, image_size) ==
    le32(size) \o le32(width) \o le32(height) \o le16(planes) \o le16(bit_count)
    \o le32(compression) \o le32(image_size) \o le32(0) \o le32(0) \o le32(0) \o le32(0)

(* ---- int arithmetic of the pixel loops ---- *)

\* The least width whose last pixel has an index x*3 + 2 beyond INT_MAX.
WideWidth == ((INT_MAX - 2) \div 3) + 2

\* An int expression with mathematical value v overflows.
IntOverflows(v) == v > INT_MAX \/ v < INT32_MIN

\* The value an overflowing int computation has where the build lets it wrap.
IntWrap(v) == ((v - INT32_MIN) % (2^IntBits)) + INT32_MIN

\* What the build makes of signed overflow in an index (undefined behaviour):
\* "wide" computes the index in a wider register, "wrap" wraps it to int.
UbOutcomes == {"wide", "wrap"}

\* The index the build computes for the int expression with value v.
IntIndex(v, ub) == IF ub = "wrap" THEN IntWrap(v) ELSE v

\* The components a pixel loop copies: 0, 1, 2 and, with alpha, 3.
LoopComps(alpha) == IF alpha THEN 0..3 ELSE 0..2

\* The source component the loops read for destination component k (BGR <-> RGB).
SwapComp(k) == IF k = 3 THEN 3 ELSE 2 - k

\* Some int index of the loop for (x = 0; x < width; x++) over pixels of
\* dch and sch bytes overflows.
LoopOverflows(width, dch, sch, alpha) ==
    \E x \in 0..(width - 1), k \in LoopComps(alpha) :
        IntOverflows(x * dch + k) \/ IntOverflows(x * sch + SwapComp(k))

\* The buffer dst after  for (x = 0; x < width; x++) dst[x*dch + k] =
\* src[x*sch + SwapComp(k)]  where dst and src point dbase and sbase bytes
\* into the buffers dbuf and sbuf (sequences of bytes): a read outside sbuf
\* gives an indeterminate byte, a write outside dbuf is lost.
CopyPixels(dbuf, dbase, sbuf, sbase, width, dch, sch, alpha, ub) ==
    IF ~LoopOverflows(width, dch, sch, alpha) \/ ub = "wide"
    THEN [j \in 1..Len(dbuf) |->
            LET o == j - 1 - dbase
            IN IF o >= 0 /\ o < width * dch /\ (o % dch) \in LoopComps(alpha)
               THEN sbuf[sbase + (o \div dch) * sch + SwapComp(o % dch) + 1]
               ELSE dbuf[j]]
    ELSE [j \in 1..Len(dbuf) |->
            LET hits == { xk \in (0..(width - 1)) \X LoopComps(alpha) :
                            dbase + IntIndex(xk[1] * dch + xk[2], ub) = j - 1 }
            IN IF hits = {} THEN dbuf[j]
               ELSE LET last == CHOOSE xk \in hits :
                                   \A o \in hits : o[1] * 4 + o[2] <= xk[1] * 4 + xk[2]
                        si == sbase + IntIndex(last[1] * sch + SwapComp(last[2]), ub)
                    IN IF si >= 0 /\ si < Len(sbuf) THEN sbuf[si + 1] ELSE Uninit]

\* The loop touches memory outside dbuf or sbuf.
CopyOutside(dbuf, dbase, sbuf, sbase, width, dch, sch, alpha, ub) ==
    \E x \in 0..(width - 1), k \in LoopComps(alpha) :
        LET di == dbase + IntIndex(x * dch + k, ub)
            si == sbase + IntIndex(x * sch + SwapComp(k), ub)
        IN di < 0 \/ di >= Len(dbuf) \/ si < 0 \/ si >= Len(sbuf)

(* -------------------------------------------------------------- bmp_write *)

\* The checks and size computations of bmp_write between fopen and the
\* headers: the return statement it fails by ("ok" when it goes on).
bmp_write_sizes(im) ==
    LET none == [at |-> "dims", bmp_rowbytes |-> 0, image_size |-> 0]
    IN IF ~image_validate_dims(im) THEN none
       ELSE LET bmp_channels == 3
                raw_rowbytes == checked_mul_size(ToSize(im.width), ToSize(bmp_channels), 0)
                tmp_rowbytes == checked_add_size(raw_rowbytes.out, 3, 0)
                bmp_rowbytes == tmp_rowbytes.out - (tmp_rowbytes.out % 4)
                image_size == checked_mul_size(bmp_rowbytes, ToSize(im.height), 0)
            IN IF ~raw_rowbytes.ok \/ ~tmp_rowbytes.ok THEN [none EXCEPT !.at = "overflow"]
               ELSE IF bmp_rowbytes = 0 THEN [none EXCEPT !.at = "rowbytes"]
               ELSE IF ~image_size.ok THEN [none EXCEPT !.at = "overflow"]
               ELSE IF image_size.out > UINT32_MAX - (BMP_FH_SIZE + BMP_IH_SIZE)
               THEN [none EXCEPT !.at = "file_size"]
               ELSE [at |-> "ok", bmp_rowbytes |-> bmp_rowbytes,
                     image_size |-> image_size.out]

\* bmp_write up to its loop over the rows.  env is what the environment does:
\* "ok", "fopen" (fopen fails), "write" (the headers are not written) or
\* "calloc" (no memory for the row).
BmpWriteBegin ==
    /\ pc = "bmp_write"
    /\ \E env \in {"ok", "fopen", "write", "calloc"} :
          LET s == bmp_write_sizes(src)
              headers == bmp_file_header(BMP_MAGIC,
                             (BMP_FH_SIZE + BMP_IH_SIZE + s.image_size) % (UINT32_MAX + 1),
                             BMP_FH_SIZE + BMP_IH_SIZE)
                         \o bmp_info_header(BMP_IH_SIZE, src.width, src.height, 1, 24, 0,
                                            s.image_size % (UINT32_MAX + 1))
              src_rowbytes == checked_mul_size(ToSize(src.width), ToSize(src.channels), 0)
              at == IF env = "fopen" THEN "fopen"
                    ELSE IF s.at # "ok" THEN s.at
                    ELSE IF env \in {"write", "calloc"} THEN env
                    ELSE IF ~src_rowbytes.ok THEN "overflow"
                    ELSE "ok"
          IN /\ file' = IF at = "fopen" THEN file
                        ELSE IF at \in {"calloc", "overflow", "ok"} /\ s.at = "ok" THEN headers
                        ELSE <<>>
             /\ IF at = "ok"
                THEN /\ pc' = "bw_loop"
                     /\ ret' = ret
                     /\ wr' = [fn |-> "bmp_write",
                               bmp_rowbytes |-> s.bmp_rowbytes,
                               src_rowbytes |-> src_rowbytes.out,
                               row |-> [j \in 1..s.bmp_rowbytes |-> 0],
                               y |-> src.height - 1,
                               ub |-> FALSE,
                               oob |-> FALSE]
                ELSE /\ pc' = "ret"
                     /\ ret' = [fn |-> "bmp_write", ok |-> FALSE, at |-> at]
                     /\ wr' = wr
    /\ UNCHANGED <<size_max, max_pixels, src, img, heap, rd, ar, mn>>

\* One iteration of for (y = height - 1; y >= 0; y--): the row is filled and
\* written.  io is "ok" or "short" (the row is not written in full); ub is
\* what the build makes of an overflowing index.
BmpWriteRow ==
    /\ pc = "bw_loop"
    /\ wr.y >= 0
    /\ \E io \in {"ok", "short"}, ub \in UbOutcomes :
          LET yoff == (ToSize(wr.y) * wr.src_rowbytes) % (SIZE_MAX + 1)
              over == LoopOverflows(src.width, 3, src.channels, FALSE)
              row == CopyPixels(wr.row, 0, src.pixels, yoff, src.width, 3,
                                src.channels, FALSE, ub)
              out == CopyOutside(wr.row, 0, src.pixels, yoff, src.width, 3,
                                 src.channels, FALSE, ub)
          IN /\ (~over => ub = "wide")
             /\ wr' = [wr EXCEPT !.row = row, !.y = @ - 1,
                                 !.ub = @ \/ over, !.oob = @ \/ out]
             /\ IF io = "ok"
                THEN /\ file' = file \o row
                     /\ UNCHANGED <<pc, ret>>
                ELSE /\ file' = file \o SubSeq(row, 1, Len(row) - 1)
                     /\ pc' = "ret"
                     /\ ret' = [fn |-> "bmp_write", ok |-> FALSE, at |-> "write"]
    /\ UNCHANGED <<size_max, max_pixels, src, img, heap, rd, ar, mn>>

\* The loop is over: free(row); fclose(f); return true.
BmpWriteEnd ==
    /\ pc = "bw_loop"
    /\ wr.y < 0
    /\ pc' = "ret"
    /\ ret' = [fn |-> "bmp_write", ok |-> TRUE, at |-> "ok"]
    /\ UNCHANGED <<size_max, max_pixels, src, file, img, heap, wr, rd, ar, mn>>

(* --------------------------------------------------------------- bmp_read *)

\* A buggy variant: a BMP of any bit depth is taken for a 24-bit one.
bmp_format_ok_any_depth(compression, bit_count) == compression = 0

\* ih.compression != 0 || (ih.bit_count != 24 && ih.bit_count != 32), negated
bmp_format_ok(compression, bit_count) ==
    compression = 0 /\ (bit_count = 24 \/ bit_count = 32)

\* bmp_read from the two header reads to the fseek, for a file with bytes f:
\* the return statement it fails by ("ok" when it goes on to the rows), the
\* fields of img it has assigned by then, and what it did to the pixel
\* buffer.  m and mrow are malloc's answers for the pixels and for the row,
\* seek is fseek's.
bmp_read_header(f, m, mrow, seek) ==
    LET none == [at |-> "header", set |-> FALSE, width |-> 0, height |-> 0,
                 channels |-> 0, top_down |-> FALSE, nulled |-> FALSE,
                 called |-> FALSE, total |-> 0, freed |-> FALSE,
                 rowbytes |-> 0, bmp_rowbytes |-> 0, bmp_channels |-> 0, offset |-> 0]
    IN IF Len(f) < BMP_FH_SIZE + BMP_IH_SIZE THEN none
       ELSE LET type == rd16(SubSeq(f, 1, 2))
                offset == rd32u(SubSeq(f, 11, 14))
                width == rd32s(SubSeq(f, 19, 22))
                height == rd32s(SubSeq(f, 23, 26))
                bit_count == rd16(SubSeq(f, 29, 30))
                compression == rd32u(SubSeq(f, 31, 34))
            IN IF type # BMP_MAGIC THEN [none EXCEPT !.at = "magic"]
               ELSE IF ~bmp_format_ok(compression, bit_count) THEN [none EXCEPT !.at = "format"]
               ELSE IF width <= 0 \/ width > INT_MAX \/ height = 0 \/ height = INT32_MIN
               THEN [none EXCEPT !.at = "dims"]
               ELSE
    LET top_down == height < 0
        im == [pixels |-> "NULL", width |-> width,
               height |-> IF top_down THEN -height ELSE height,
               channels |-> IF bit_count = 32 THEN 4 ELSE 3]
        h1 == [none EXCEPT !.set = TRUE, !.width = im.width, !.height = im.height,
                           !.channels = im.channels, !.top_down = top_down,
                           !.offset = offset]
        rowbytes == checked_mul_size(ToSize(im.width), ToSize(im.channels), 0)
        alloc == image_alloc_pixels(im, rowbytes.out, m)
        h2 == [h1 EXCEPT !.nulled = TRUE, !.called = alloc.called, !.total = alloc.total,
                         !.rowbytes = rowbytes.out]
        bmp_channels == bit_count \div 8
        raw_rowbytes == checked_mul_size(ToSize(im.width), ToSize(bmp_channels), 0)
        tmp_rowbytes == checked_add_size(raw_rowbytes.out, 3, 0)
        bmp_rowbytes == tmp_rowbytes.out - (tmp_rowbytes.out % 4)
        h3 == [h2 EXCEPT !.freed = TRUE]
    IN IF ~image_validate_dims(im) THEN [h1 EXCEPT !.at = "dims"]
       ELSE IF ~image_check_max_pixels(im.width, im.height) THEN [h1 EXCEPT !.at = "max_pixels"]
       ELSE IF ~rowbytes.ok THEN [h1 EXCEPT !.at = "overflow"]
       ELSE IF ~alloc.ok THEN [h2 EXCEPT !.at = alloc.at]
       ELSE IF ~raw_rowbytes.ok \/ ~tmp_rowbytes.ok THEN [h3 EXCEPT !.at = "overflow"]
       ELSE IF ~mrow THEN [h3 EXCEPT !.at = "malloc_row"]
       ELSE IF ~seek THEN [h3 EXCEPT !.at = "fseek"]
       ELSE [h2 EXCEPT !.at = "ok", !.bmp_rowbytes = bmp_rowbytes,
                       !.bmp_channels = bmp_channels]

\* bmp_read up to its loop over the rows.  env is what the environment does:
\* "ok", "fopen", "malloc" (no memory for the pixels), "malloc_row" (no
\* memory for the row) or "fseek".
BmpReadBegin ==
    /\ pc = "bmp_read"
    /\ \E env \in {"ok", "fopen", "malloc", "malloc_row", "fseek"} :
          IF env = "fopen"
          THEN /\ pc' = "ret"
               /\ ret' = [fn |-> "bmp_read", ok |-> FALSE, at |-> "fopen"]
               /\ UNCHANGED <<img, heap, rd>>
          ELSE LET h == bmp_read_header(file, env # "malloc", env # "malloc_row",
                                        env # "fseek")
                   got == h.called /\ env # "malloc"
                   h_1 == IF h.called THEN Malloc(heap, h.total, env # "malloc") ELSE heap
               IN /\ img' = [pixels |-> IF h.freed THEN "NULL"
                                        ELSE IF got THEN "buf"
                                        ELSE IF h.nulled THEN "NULL"
                                        ELSE img.pixels,
                             width |-> IF h.set THEN h.width ELSE img.width,
                             height |-> IF h.set THEN h.height ELSE img.height,
                             channels |-> IF h.set THEN h.channels ELSE img.channels]
                  /\ heap' = IF h.freed THEN Free(h_1) ELSE h_1
                  /\ IF h.at = "ok"
                     THEN /\ pc' = "br_loop"
                          /\ ret' = ret
                          /\ rd' = [fn |-> "bmp_read",
                                    pos |-> h.offset,
                                    top_down |-> h.top_down,
                                    rowbytes |-> h.rowbytes,
                                    bmp_rowbytes |-> h.bmp_rowbytes,
                                    bmp_channels |-> h.bmp_channels,
                                    y |-> 0,
                                    ub |-> FALSE,
                                    oob |-> FALSE]
                     ELSE /\ pc' = "ret"
                          /\ ret' = [fn |-> "bmp_read", ok |-> FALSE, at |-> h.at]
                          /\ rd' = rd
    /\ UNCHANGED <<size_max, max_pixels, src, file, wr, ar, mn>>

\* One iteration of for (y = 0; y < img->height; y++): a row is read and its
\* pixels are stored, or the read is short and the buffers are freed.  ub is
\* what the build makes of an overflowing index.
BmpReadRow ==
    /\ pc = "br_loop"
    /\ rd.y < img.height
    /\ IF Len(file) - rd.pos < rd.bmp_rowbytes
       THEN /\ heap' = Free(heap)
            /\ rd' = [rd EXCEPT !.pos = IF Len(file) > @ THEN Len(file) ELSE @]
            /\ pc' = "ret"
            /\ ret' = [fn |-> "bmp_read", ok |-> FALSE, at |-> "eof"]
       ELSE \E ub \in UbOutcomes :
               LET dst_y == ToSize(IF rd.top_down THEN rd.y ELSE img.height - 1 - rd.y)
                   dbase == (dst_y * rd.rowbytes) % (SIZE_MAX + 1)
                   row == SubSeq(file, rd.pos + 1, rd.pos + rd.bmp_rowbytes)
                   alpha == img.channels = 4
                   over == LoopOverflows(img.width, img.channels, rd.bmp_channels, alpha)
                   out == CopyOutside(heap.data, dbase, row, 0, img.width, img.channels,
                                      rd.bmp_channels, alpha, ub)
               IN /\ (~over => ub = "wide")
                  /\ heap' = [heap EXCEPT
                                !.data = CopyPixels(@, dbase, row, 0, img.width, img.channels,
                                                    rd.bmp_channels, alpha, ub),
                                !.oob = @ \/ out]
                  /\ rd' = [rd EXCEPT !.pos = @ + rd.bmp_rowbytes, !.y = @ + 1,
                                      !.ub = @ \/ over, !.oob = @ \/ out]
                  /\ UNCHANGED <<pc, ret>>
    /\ UNCHANGED <<size_max, max_pixels, src, file, img, wr, ar, mn>>

\* The loop is over: free(row); fclose(f); return true.
BmpReadEnd ==
    /\ pc = "br_loop"
    /\ rd.y >= img.height
    /\ pc' = "ret"
    /\ ret' = [fn |-> "bmp_read", ok |-> TRUE, at |-> "ok"]
    /\ UNCHANGED <<size_max, max_pixels, src, file, img, heap, wr, rd, ar, mn>>

(* --------------------------------------- images handed to the writers *)

Palette ==
    { <<0, 0, 0, 255>>,      \* the start pixel
      <<1, 1, 0, 255>>,      \* a small difference from the start pixel, hash 61
      <<10, 12, 9, 255>>,    \* a luma difference from the start pixel
      <<24, 0, 0, 255>>,     \* hash 61 again
      <<1, 1, 0, 128>>,      \* another alpha
      <<0, 0, 0, 0>> }       \* equal to an untouched cache slot

\* Lengths of the leading run of equal pixels: short ones, followed by up to
\* MaxTail pixels, and long ones, followed by up to MaxLongTail pixels.
ShortRuns == {1, 2}
LongRuns == {62, 70}

Tails(n) == UNION { [1..k -> Palette] : k \in 0..n }

\* The sequences of pixels of the images.
ImagePixels ==
    { [i \in 1..L |-> P] \o t : P \in Palette, L \in ShortRuns, t \in Tails(MaxTail) }
    \cup
    { [i \in 1..L |-> P] \o t : P \in Palette, L \in LongRuns, t \in Tails(MaxLongTail) }

\* The bytes of the pixels pxs stored with ch channels each.
Flatten(pxs, ch) ==
    [i \in 1..(Len(pxs) * ch) |-> pxs[((i - 1) \div ch) + 1][((i - 1) % ch) + 1]]

\* Width and height of an image of n pixels.
Shape(n) == IF n % 2 = 0 THEN <<n \div 2, 2>> ELSE <<n, 1>>

\* The pixel k (from 1) of image im, with alpha 255 where it stores none.
SrcPx(im, k) ==
    [c \in 1..4 |-> IF c <= im.channels THEN im.pixels[(k - 1) * im.channels + c] ELSE 255]

SrcCount(im) == im.width * im.height

(* ------------------------------- specification of write-then-read-back *)

RoundTripInit ==
    /\ size_max \in {SizeMaxNarrow, SizeMaxWide}
    /\ max_pixels \in {0, 64}
    /\ pc \in {"qoi_write", "bmp_write"}
    /\ ret = NoRet
    /\ \E pxs \in ImagePixels, ch \in {3, 4} :
          src = [pixels |-> Flatten(pxs, ch), width |-> Shape(Len(pxs))[1],
                 height |-> Shape(Len(pxs))[2], channels |-> ch]
    /\ file = <<>>
    /\ img = ZeroImg
    /\ heap = NoHeap
    /\ wr = NoLocals
    /\ rd = NoLocals
    /\ ar = NoAr
    /\ mn = NoMain

\* decode(encode(img)): the file a writer wrote is read back by the reader of
\* the same format into a fresh struct image.
ReadBack ==
    /\ pc = "ret"
    /\ ret.ok
    /\ ret.fn \in {"qoi_write", "bmp_write"}
    /\ pc' = IF ret.fn = "qoi_write" THEN "qoi_read" ELSE "bmp_read"
    /\ img' = ZeroImg
    /\ UNCHANGED <<size_max, max_pixels, ret, src, file, heap, wr, rd, ar, mn>>

RoundTripNext ==
    \/ QoiWriteBegin \/ QoiWritePixel \/ QoiWriteEnd
    \/ ReadBack
    \/ QoiReadBegin \/ QoiReadOp \/ QoiReadEnd
    \/ BmpWriteBegin \/ BmpWriteRow \/ BmpWriteEnd
    \/ BmpReadBegin \/ BmpReadRow \/ BmpReadEnd

SpecRoundTrip == RoundTripInit /\ [][RoundTripNext]_vars

\* width*height is within the pixel ceiling
WithinCeiling(im) == max_pixels = 0 \/ im.width * im.height <= max_pixels

(* C1: QOI round trip.  Reading back what qoi_write wrote for an image     *)
(* within the pixel ceiling succeeds (unless fopen or malloc fails) and    *)
(* gives the same width, height and channels and exactly the same pixel    *)
(* bytes.                                                                  *)
C1_QoiRoundTrip ==
    (pc = "ret" /\ ret.fn = "qoi_read") =>
        /\ (WithinCeiling(src) /\ ret.at \notin {"fopen", "malloc"}) => ret.ok
        /\ ret.ok => /\ img.width = src.width
                     /\ img.height = src.height
                     /\ img.channels = src.channels
                     /\ img.pixels = "buf" /\ heap.state = "live"
                     /\ heap.data = src.pixels

\* A 4-channel image with a long run and two more pixels was read back.
C1_Witness ==
    /\ pc = "ret" /\ ret.fn = "qoi_read" /\ ret.ok
    /\ src.channels = 4 /\ SrcCount(src) = 63
    /\ SrcPx(src, 62) = <<1, 1, 0, 128>> /\ SrcPx(src, 63) = <<24, 0, 0, 255>>
    /\ heap.data = src.pixels

(* ---- BMP ---- *)

\* The pixel bytes of im with the alpha bytes left out.
RgbBytes(im) == Flatten([k \in 1..SrcCount(im) |-> SrcPx(im, k)], 3)

\* The environment let the read-back through: the file could be opened and
\* malloc found memory.
ReadEnvOk == ret.at \notin {"fopen", "malloc", "malloc_row", "fseek"}

(* C2: BMP round trip.  Reading back with bmp_read what bmp_write wrote    *)
(* for an image (within the pixel ceiling, the environment permitting)     *)
(* succeeds and gives the same width and height with 3 channels, and the   *)
(* R, G, B bytes of every pixel of the image in the same order, no access  *)
(* having left the buffers.                                                *)
C2_BmpRoundTrip ==
    (pc = "ret" /\ ret.fn = "bmp_read" /\ ReadEnvOk /\ WithinCeiling(src)) =>
        /\ ret.ok
        /\ img.width = src.width
        /\ img.height = src.height
        /\ img.channels = 3
        /\ img.pixels = "buf" /\ heap.state = "live"
        /\ heap.data = RgbBytes(src)
        /\ ~wr.oob /\ ~rd.oob

\* The round trip of BMP as far as no int index of the pixel loops overflows.
BmpRoundTripWithoutOverflow ==
    (pc = "ret" /\ ret.fn = "bmp_read" /\ ReadEnvOk /\ WithinCeiling(src)
       /\ ~LoopOverflows(src.width, 3, src.channels, FALSE)) => C2_BmpRoundTrip

\* A BMP of an image whose row indices overflow int was read back.
BmpOverflowReadBack ==
    /\ pc = "ret" /\ ret.fn = "bmp_read" /\ ret.ok
    /\ LoopOverflows(src.width, 3, src.channels, FALSE)

(* ---- the QOI encoder ---- *)

\* b is the byte of a RUN op
IsRunByte(b) == BitAnd(b, QOI_MASK_2) = QOI_OP_RUN /\ b # QOI_OP_RGB /\ b # QOI_OP_RGBA

\* The loop of qoi_write is over, the end marker not yet appended.
EncoderLoopDone == pc = "qw_loop" /\ wr.fn = "qoi_write" /\ wr.i = wr.pixel_count

\* The first n pixels of im are equal.
FirstSame(im, n) ==
    SrcCount(im) >= n /\ \A k \in 1..n : SrcPx(im, k) = SrcPx(im, 1)

\* The image begins with a run of exactly 70 equal pixels.
RunOfExactly70(im) ==
    FirstSame(im, 70) /\ (SrcCount(im) = 70 \/ SrcPx(im, 71) # SrcPx(im, 1))

AtSecondP ==
    /\ pc = "qw_loop" /\ wr.fn = "qoi_write"
    /\ wr.i >= 2 /\ wr.i < wr.pixel_count
    /\ SrcPx(src, wr.i - 1) = SrcPx(src, wr.i + 1)
    /\ SrcPx(src, wr.i) # SrcPx(src, wr.i + 1)

\* (r*3 + g*5 + b*7 + a*11) mod 64
SpecHash(px) == (px[1] * 3 + px[2] * 5 + px[3] * 7 + px[4] * 11) % 64

\* The step emits exactly one byte, the INDEX op of px.
EmitsIndexOf(px) ==
    /\ wr'.data = Append(wr.data, SpecHash(px))
    /\ wr'.p = wr.p + 1

(* C4 as stated: index hit.  For any two distinct pixels P and Q, when the *)
(* encoder processes P, Q, P, the second P goes out as one INDEX byte      *)
(* whose field is (r*3+g*5+b*7+a*11) mod 64 of P.                          *)
C4_IndexHit_AsStated ==
    [][AtSecondP => EmitsIndexOf(SrcPx(src, wr.i + 1))]_vars

\* Every pixel up to pixel k is the start pixel (0,0,0,255): the encoder has
\* put them into runs and never into the cache.
OnlyStartPxUpTo(k) == \A j \in 1..k : SrcPx(src, j) = StartPx

(* C4: index hit.  For two distinct pixels P and Q with different hashes,  *)
(* when the encoder processes P, Q, P and the first P was not part of a    *)
(* run of start pixels (0,0,0,255) that begins the image, the second P     *)
(* goes out as one INDEX byte whose field is (r*3+g*5+b*7+a*11) mod 64 of  *)
(* P.                                                                      *)
C4_IndexHit ==
    [][(/\ AtSecondP
        /\ SpecHash(SrcPx(src, wr.i)) # SpecHash(SrcPx(src, wr.i + 1))
        /\ ~OnlyStartPxUpTo(wr.i - 1))
       => EmitsIndexOf(SrcPx(src, wr.i + 1))]_vars

\* The encoder has processed P, Q, P with alpha 128 in P and the last byte
\* it emitted is the INDEX op of P.
C4_Witness ==
    /\ pc = "qw_loop" /\ wr.fn = "qoi_write" /\ wr.i >= 3
    /\ SrcPx(src, wr.i) = <<1, 1, 0, 128>>
    /\ SrcPx(src, wr.i - 2) = <<1, 1, 0, 128>>
    /\ SrcPx(src, wr.i - 1) = <<10, 12, 9, 255>>
    /\ wr.data[Len(wr.data)] = SpecHash(<<1, 1, 0, 128>>)
    /\ wr.p = Len(wr.data)

(* ------------------------------ specification of reading arbitrary files *)

\* The first four bytes of the QOI files: "qoif", "qoig", "BM" and zeros.
QoiMagics == { qoi_write32be(QOI_MAGIC), <<113, 111, 105, 103>>, <<66, 77, 0, 0>>,
               <<0, 0, 0, 0>> }

\* The declared width and height of the QOI files.
QoiDims == { <<0, 1>>, <<1, 0>>, <<1, 1>>, <<2, 1>>, <<2, 2>>, <<101, 1>>,
             <<HalfWord, HalfWord>>, <<INT_MAX + 1, 1>> }

\* The declared dimensions the decoder can accept.
QoiGoodDims == { <<1, 1>>, <<2, 1>>, <<2, 2>>, <<101, 1>> }

\* A QOI header as bytes
QoiHeader(magic, dims, channels) ==
    magic \o qoi_write32be(dims[1]) \o qoi_write32be(dims[2]) \o <<channels, 0>>

\* Ops of every kind, whole and cut short.
OpTokens ==
    { <<0>>, <<53>>,                 \* INDEX 0, INDEX 53
      <<126>>,                       \* DIFF +1 +1 0
      <<170, 136>>,                  \* LUMA
      <<193>>, <<253>>,              \* RUN 2, RUN 62
      <<254, 1, 2, 3>>,              \* RGB
      <<254, 2, 1, 0>>,              \* RGB of a pixel whose hash is 0
      <<255, 1, 2, 3, 4>>,           \* RGBA
      <<254, 1>>, <<255>>, <<170>> } \* cut short

\* The op streams: up to MaxOps ops.
RECURSIVE OpStreams(_)
OpStreams(n) ==
    IF n = 0 THEN { <<>> }
    ELSE OpStreams(n - 1) \cup { s \o t : s \in OpStreams(n - 1), t \in OpTokens }

\* The QOI files: every header with a few bodies, the headers cut short, and
\* the acceptable headers with every op stream.
QoiFiles ==
    { QoiHeader(m, d, c) \o b :
        m \in QoiMagics, d \in QoiDims, c \in {3, 4, 5},
        b \in { <<>>, <<253, 230>>, <<254, 1, 2, 3, 0>> } }
    \cup
    { SubSeq(QoiHeader(m, <<1, 1>>, 4), 1, k) : m \in QoiMagics, k \in {0, 4, 13} }
    \cup
    { QoiHeader(qoi_write32be(QOI_MAGIC), d, c) \o b :
        d \in QoiGoodDims, c \in {3, 4}, b \in OpStreams(MaxOps) }

\* n bytes of pixel data, each its own value.
BmpData(n) == [i \in 1..n |-> (i * 7 + 1) % 256]

\* A BMP file: the two headers, gap bytes in front of the pixel data, and
\* n bytes of data.
BmpFile(type, compression, bit_count, width, height, gap, n) ==
    bmp_file_header(type, BMP_FH_SIZE + BMP_IH_SIZE + gap + n, BMP_FH_SIZE + BMP_IH_SIZE + gap)
    \o bmp_info_header(BMP_IH_SIZE, width, height, 1, bit_count, compression, n)
    \o [i \in 1..gap |-> 0]
    \o BmpData(n)

\* The BMP files: every header with plenty of data, the acceptable headers
\* with a gap and with data cut short, a header cut short, and images wide
\* enough for their int indices to overflow.
BmpFiles ==
    { BmpFile(t, c, b, w, h, 0, 24) :
        t \in {BMP_MAGIC, BMP_MAGIC + 1}, c \in {0, 1}, b \in {24, 32, 1, 8},
        w \in {-1, 0, 1, 2, 3}, h \in {INT32_MIN, -2, -1, 0, 1, 2} }
    \cup
    { BmpFile(BMP_MAGIC, 0, b, w, h, g, n) :
        b \in {24, 32}, w \in {1, 2, 3}, h \in {-2, -1, 1, 2}, g \in {0, 2},
        n \in {0, 7, 24} }
    \cup
    { SubSeq(BmpFile(BMP_MAGIC, 0, 24, 1, 1, 0, 4), 1, BMP_FH_SIZE + BMP_IH_SIZE - 1) }
    \cup
    { BmpFile(BMP_MAGIC, 0, b, WideWidth, h, 0, 4 * WideWidth) :
        b \in {24, 32}, h \in {-1, 1} }

ReadInit ==
    /\ size_max \in {SizeMaxNarrow, SizeMaxWide}
    /\ max_pixels \in {0, 2, 100}
    /\ \/ pc = "qoi_read" /\ file \in QoiFiles
       \/ pc = "bmp_read" /\ file \in BmpFiles
    /\ ret = NoRet
    /\ src = NoSrc
    /\ img = ZeroImg
    /\ heap = NoHeap
    /\ wr = NoLocals
    /\ rd = NoLocals
    /\ ar = NoAr
    /\ mn = NoMain

ReadNext ==
    \/ QoiReadBegin \/ QoiReadOp \/ QoiReadEnd
    \/ BmpReadBegin \/ BmpReadRow \/ BmpReadEnd

SpecRead == ReadInit /\ [][ReadNext]_vars

(* ---- the decoders and the files they are given ---- *)

\* A decoder has returned.
QoiReturned == pc = "ret" /\ ret.fn = "qoi_read"
BmpReturned == pc = "ret" /\ ret.fn = "bmp_read"

\* The file holds a whole header, and the width and height it declares.
QoiDeclares == Len(file) >= QOI_HEADER_SIZE
QoiWidth == qoi_read32be(SubSeq(file, 5, 8))
QoiHeight == qoi_read32be(SubSeq(file, 9, 12))

BmpDeclares == Len(file) >= BMP_FH_SIZE + BMP_IH_SIZE
BmpType == rd16(SubSeq(file, 1, 2))
BmpWidth == rd32s(SubSeq(file, 19, 22))
BmpHeight == rd32s(SubSeq(file, 23, 26))
BmpBitCount == rd16(SubSeq(file, 29, 30))
BmpCompression == rd32u(SubSeq(file, 31, 34))
Abs(v) == IF v < 0 THEN -v ELSE v

\* What holds of a decode of an input that declares n pixels: beyond a
\* non-zero ceiling, or with n beyond the size type, it is rejected before
\* anything is allocated, and the ceiling check rejects nothing else.
CeilingEnforced(n) ==
    /\ (max_pixels # 0 /\ n > max_pixels) => (~ret.ok /\ heap.mallocs = 0)
    /\ n > SIZE_MAX => (~ret.ok /\ heap.mallocs = 0)
    /\ ret.at = "max_pixels" => (n > SIZE_MAX \/ (max_pixels # 0 /\ n > max_pixels))

(* C5: pixel ceiling enforcement.  A decode (QOI or BMP) of an input that  *)
(* declares width*height pixels is rejected, before anything is allocated, *)
(* whenever the ceiling is non-zero and width*height exceeds it, and       *)
(* whenever the product does not fit the size type; the ceiling check is   *)
(* the cause of a rejection only in these cases, never when the ceiling is *)
(* 0 or width*height is within it.                                         *)
C5_PixelCeiling ==
    /\ (QoiReturned /\ QoiDeclares) => CeilingEnforced(QoiWidth * QoiHeight)
    /\ (BmpReturned /\ BmpDeclares /\ BmpWidth > 0)
          => CeilingEnforced(BmpWidth * Abs(BmpHeight))

\* With ceiling 100 a QOI file declaring 101 pixels was rejected by the
\* ceiling check.
C5_Witness ==
    /\ QoiReturned /\ QoiDeclares
    /\ max_pixels = 100 /\ QoiWidth * QoiHeight = 101
    /\ ~ret.ok /\ ret.at = "max_pixels" /\ heap.mallocs = 0

\* With ceiling 0 the same file was decoded.
CeilingDisabledDecodes ==
    /\ QoiReturned /\ QoiDeclares
    /\ max_pixels = 0 /\ QoiWidth * QoiHeight = 101
    /\ ret.ok /\ heap.size = 101 * img.channels

\* The header of the file passes every check qoi_read makes before malloc.
QoiHeaderAccepted ==
    /\ QoiDeclares
    /\ SubSeq(file, 1, 4) = <<113, 111, 105, 102>>
    /\ QoiWidth > 0 /\ QoiHeight > 0 /\ QoiWidth <= INT_MAX /\ QoiHeight <= INT_MAX
    /\ file[13] \in {3, 4}
    /\ max_pixels = 0 \/ QoiWidth * QoiHeight <= max_pixels

(* C7: malformed QOI header.  For a file whose first 4 bytes are not       *)
(* 'qoif', qoi_read (once the file is open) fails at the read of the       *)
(* header or at the check of the magic and at no point is a pixel buffer   *)
(* allocated; malloc is called only for a header whose magic, dimensions,  *)
(* channel count and pixel count have all been accepted.                   *)
C7_MalformedQoiHeader ==
    /\ (QoiReturned /\ ret.at # "fopen" /\ Len(file) >= 4
          /\ SubSeq(file, 1, 4) # <<113, 111, 105, 102>>)
          => /\ ~ret.ok /\ ret.at \in {"header", "magic"}
             /\ heap.mallocs = 0 /\ heap.state = "none"
             /\ img = ZeroImg
    /\ ((pc = "qr_loop" \/ QoiReturned) /\ heap.mallocs > 0) => QoiHeaderAccepted
    /\ (pc = "qr_loop" /\ Len(file) >= 4) => SubSeq(file, 1, 4) = <<113, 111, 105, 102>>

\* A file that begins with 'qoig' and is otherwise a good header was
\* rejected at the check of the magic.
C7_Witness ==
    /\ QoiReturned /\ ret.at = "magic" /\ ~ret.ok
    /\ SubSeq(file, 1, 4) = <<113, 111, 105, 103>>
    /\ QoiWidth = 1 /\ QoiHeight = 1 /\ file[13] = 4
    /\ heap.mallocs = 0

\* The header is one bmp_read must reject.
BmpMalformed ==
    \/ BmpType # 19778
    \/ BmpCompression # 0
    \/ BmpBitCount \notin {24, 32}
    \/ BmpWidth <= 0
    \/ BmpHeight = 0
    \/ BmpHeight = INT32_MIN

(* C8: BMP rejection.  bmp_read (once the file is open) fails at one of    *)
(* its checks of the format, without allocating a pixel buffer, for every  *)
(* file whose magic is not 'BM', whose compression is not 0, whose bit     *)
(* depth is not 24 or 32, whose width is <= 0 or whose height is 0 or the  *)
(* minimum negative value; for every file it accepts, the height of the    *)
(* image is the positive absolute value of the declared height.            *)
C8_BmpRejection ==
    /\ ((pc = "br_loop" \/ (BmpReturned /\ ret.at # "fopen")) /\ BmpDeclares /\ BmpMalformed)
          => /\ pc = "ret" /\ ~ret.ok /\ ret.at \in {"magic", "format", "dims"}
             /\ heap.mallocs = 0 /\ heap.state = "none"
             /\ img.pixels = "NULL"
    /\ (pc = "br_loop" \/ (BmpReturned /\ ret.ok))
          => /\ img.height = Abs(BmpHeight)
             /\ img.height > 0

\* An 8-bit BMP, otherwise good, was rejected at the check of the format.
C8_Witness ==
    /\ BmpReturned /\ ~ret.ok /\ ret.at = "format"
    /\ BmpType = 19778 /\ BmpCompression = 0 /\ BmpBitCount = 8
    /\ BmpWidth = 2 /\ BmpHeight = 2
    /\ heap.mallocs = 0

\* A top-down BMP was read.
TopDownAccepted ==
    /\ BmpReturned /\ ret.ok /\ BmpHeight = -2 /\ img.height = 2

(* ------------------------------------------------------------------ main *)

\* The readers and writers main can call for the formats modelled here.
Readers == {"qoi_read", "bmp_read"}
Writers == {"qoi_write", "bmp_write"}

\* main from the --max-bytes check to the call of the reader: a regular
\* file larger than max_bytes ends the program, anything else is handed to
\* the reader of the format the name of the input stands for.
MainStart ==
    /\ pc = "main"
    /\ IF mn.max_bytes # 0 /\ mn.stat = "regular" /\ Len(file) > mn.max_bytes
       THEN /\ pc' = "exit"
            /\ mn' = [mn EXCEPT !.stage = "exit", !.returned = TRUE]
       ELSE /\ pc' = mn.from_fmt
            /\ mn' = [mn EXCEPT !.stage = "read"]
    /\ UNCHANGED <<size_max, max_pixels, ret, src, file, img, heap, wr, rd, ar>>

\* A buggy variant: have_pixels is set whatever the reader returned.
MainHavePixels_always(ok) == TRUE

\* if (ok) have_pixels = true;
MainHavePixels(ok) == ok

\* A buggy variant: main goes on to the writer whatever the reader returned.
MainGoesOn_always(ok) == TRUE

\* if (!ok) { ...; goto cleanup; }, negated
MainGoesOn(ok) == ok

\* The reader has returned: have_pixels, and either the call of the writer
\* with the image read, or goto cleanup.
MainAfterRead ==
    /\ pc = "ret" /\ ret.fn \in Readers /\ mn.stage = "read"
    /\ IF MainGoesOn(ret.ok)
       THEN /\ mn' = [mn EXCEPT !.stage = "write", !.have_pixels = MainHavePixels(ret.ok)]
            /\ src' = [pixels |-> heap.data, width |-> img.width,
                       height |-> img.height, channels |-> img.channels]
            /\ file' = mn.output
            /\ pc' = mn.to_fmt
       ELSE /\ mn' = [mn EXCEPT !.stage = "cleanup", !.have_pixels = MainHavePixels(ret.ok)]
            /\ pc' = "cleanup"
            /\ UNCHANGED <<src, file>>
    /\ UNCHANGED <<size_max, max_pixels, ret, img, heap, wr, rd, ar>>

\* The writer has returned: exit_code = EXIT_SUCCESS unless it failed.
MainAfterWrite ==
    /\ pc = "ret" /\ ret.fn \in Writers /\ mn.stage = "write"
    /\ mn' = [mn EXCEPT !.stage = "cleanup", !.output = file,
                        !.exit_code = IF ret.ok THEN "EXIT_SUCCESS" ELSE @]
    /\ pc' = "cleanup"
    /\ UNCHANGED <<size_max, max_pixels, ret, src, file, img, heap, wr, rd, ar>>

\* cleanup: if (have_pixels) free(img.pixels); return exit_code;
MainCleanup ==
    /\ pc = "cleanup"
    /\ heap' = IF mn.have_pixels THEN Free(heap) ELSE heap
    /\ mn' = [mn EXCEPT !.stage = "exit", !.returned = TRUE]
    /\ pc' = "exit"
    /\ UNCHANGED <<size_max, max_pixels, ret, src, file, img, wr, rd, ar>>

(* ---- the conversions ---- *)

\* What the output path holds before the conversion.
OldOutput == <<7>>

\* The input files: for each format a good one, one that ends before the
\* last pixel, one whose header is refused, and one of 4 pixels.
ConvertInputs ==
    { QoiHeader(qoi_write32be(QOI_MAGIC), <<2, 1>>, 4) \o <<255, 1, 2, 3, 4, 192>>,
      QoiHeader(qoi_write32be(QOI_MAGIC), <<2, 1>>, 4) \o <<255, 1, 2, 3, 4>>,
      QoiHeader(<<113, 111, 105, 103>>, <<2, 1>>, 4) \o <<255, 1, 2, 3, 4, 192>>,
      QoiHeader(qoi_write32be(QOI_MAGIC), <<2, 2>>, 3) \o <<254, 1, 2, 3, 126, 193>>,
      BmpFile(BMP_MAGIC, 0, 24, 2, 1, 0, 8),
      BmpFile(BMP_MAGIC, 0, 32, 1, -2, 0, 7),
      BmpFile(BMP_MAGIC, 0, 8, 2, 1, 0, 8),
      BmpFile(BMP_MAGIC, 0, 24, 2, 2, 0, 16) }

ConvertInit ==
    /\ size_max \in {SizeMaxNarrow, SizeMaxWide}
    /\ max_pixels \in {0, 2}
    /\ pc = "main"
    /\ ret = NoRet
    /\ src = NoSrc
    /\ file \in ConvertInputs
    /\ img = ZeroImg
    /\ heap = NoHeap
    /\ wr = NoLocals
    /\ rd = NoLocals
    /\ ar = NoAr
    /\ \E mb \in {0, MaxBytes, 4 * MaxBytes}, st \in {"regular", "other", "fail"},
          from \in Readers, to \in Writers :
          mn = [stage |-> "start", max_bytes |-> mb, stat |-> st,
                from_fmt |-> from, to_fmt |-> to,
                input |-> file, output |-> OldOutput,
                have_pixels |-> FALSE, exit_code |-> "EXIT_FAILURE",
                returned |-> FALSE]

ConvertNext ==
    \/ MainStart \/ MainAfterRead \/ MainAfterWrite \/ MainCleanup
    \/ QoiReadBegin \/ QoiReadOp \/ QoiReadEnd
    \/ BmpReadBegin \/ BmpReadRow \/ BmpReadEnd
    \/ QoiWriteBegin \/ QoiWritePixel \/ QoiWriteEnd
    \/ BmpWriteBegin \/ BmpWriteRow \/ BmpWriteEnd

SpecConvert == ConvertInit /\ [][ConvertNext]_vars

\* A reader has started on the input.
ReaderStarted == mn.stage \in {"read", "write", "cleanup"} \/ (mn.stage = "exit" /\ pc = "exit" /\ ret.fn # "none")

(* C12: byte ceiling.  With a non-zero byte ceiling no reader is started   *)
(* on an input that holds more bytes than the ceiling, whatever the format *)
(* and the kind of the input.                                              *)
C12_ByteCeiling ==
    (mn.stage # "none" /\ ReaderStarted)
        => ~(mn.max_bytes # 0 /\ Len(mn.input) > mn.max_bytes)

\* The part of it that holds: a regular file that stat reports is refused
\* before a reader starts when it is larger than a non-zero ceiling, and a
\* ceiling of 0 refuses nothing.
ByteCeilingOfRegularFiles ==
    mn.stage # "none" =>
        /\ (ReaderStarted /\ mn.stat = "regular")
              => ~(mn.max_bytes # 0 /\ Len(mn.input) > mn.max_bytes)
        /\ (mn.stage = "exit" /\ mn.max_bytes = 0) => ret.fn # "none"

\* An input that is no regular file and larger than the ceiling was decoded.
LargePipeDecoded ==
    /\ mn.stage = "write" /\ mn.stat = "other"
    /\ mn.max_bytes # 0 /\ Len(mn.input) > mn.max_bytes

\* A writer is running.
WriterRunning == pc \in {"qoi_write", "qw_loop", "bmp_write", "bw_loop"}

\* main has returned.
Exited == mn.stage = "exit" /\ mn.returned

(* C13: buffer ownership.  On every path through a conversion the pixel    *)
(* buffer a decoder allocated is freed exactly once: it is never freed     *)
(* twice, it is not live any more when main returns, and it is live        *)
(* whenever an encoder runs.                                               *)
C13_BufferOwnership ==
    mn.stage # "none" =>
        /\ heap.frees <= 1
        /\ heap.frees = 1 <=> heap.state = "freed"
        /\ Exited => heap.state # "live"
        /\ WriterRunning => (heap.state = "live" /\ img.pixels = "buf")

\* A conversion whose decoder succeeded and whose encoder failed has ended
\* with the buffer freed once.
C13_Witness ==
    /\ Exited /\ ret.fn \in Writers /\ ~ret.ok
    /\ heap.mallocs = 1 /\ heap.frees = 1 /\ heap.state = "freed"

\* A conversion whose decoder failed after allocating has ended with the
\* buffer freed once.
DecodeFailureFreedOnce ==
    /\ Exited /\ ret.fn \in Readers /\ ~ret.ok /\ ret.at = "eof"
    /\ heap.frees = 1 /\ heap.state = "freed"

(* ---- failed decodes ---- *)

\* A decoder has returned failure.
DecodeFailed == (QoiReturned \/ BmpReturned) /\ ~ret.ok

(* C14: no partial image.  When qoi_read or bmp_read returns failure after *)
(* the pixel buffer was allocated, the buffer has been freed and the       *)
(* struct image of the caller refers to no pixel data: img.pixels is NULL. *)
C14_NoPartialImage ==
    (DecodeFailed /\ heap.state # "none") =>
        /\ heap.state = "freed" /\ heap.frees = 1
        /\ img.pixels = "NULL"

\* The part of it that holds: the buffer is freed, exactly once, before the
\* failure is returned.
FailedDecodeReleasesBuffer ==
    (DecodeFailed /\ heap.state # "none") => (heap.state = "freed" /\ heap.frees = 1)

\* qoi_read has failed on a stream that ends early and left img.pixels
\* pointing to the freed buffer, with the dimensions of the header in img.
QoiDanglingPixels ==
    /\ QoiReturned /\ ~ret.ok /\ ret.at = "eof"
    /\ heap.state = "freed" /\ img.pixels = "buf" /\ img.width > 0

\* The same for bmp_read on a file that ends within the rows.
BmpDanglingPixels ==
    /\ BmpReturned /\ ~ret.ok /\ ret.at = "eof"
    /\ heap.state = "freed" /\ img.pixels = "buf" /\ img.width > 0

(* ---- the QOI decoder ---- *)

\* qoi_read is in its loop or has left it.
QoiDecoding == pc = "qr_loop" \/ (QoiReturned /\ heap.state # "none")

(* C15: the QOI decoder stays inside the pixel buffer.  For every op       *)
(* stream no byte is written outside [0, width*height*channels): the       *)
(* buffer has exactly that size, the cursor is a multiple of channels and  *)
(* never beyond the end, every write made started below the end, and a RUN *)
(* longer than the pixels still missing stops at the end.                  *)
C15_DecoderInBounds ==
    QoiDecoding =>
        /\ ~heap.oob
        /\ heap.size = img.width * img.height * img.channels
        /\ rd.px_end = heap.size
        /\ rd.px_pos % img.channels = 0
        /\ rd.px_pos <= rd.px_end
        /\ Len(heap.data) = heap.size

\* A RUN of 62 was the first op for an image of 2 pixels and the cursor
\* stands at the end.
C15_Witness ==
    /\ pc = "qr_loop" /\ rd.ops = 1 /\ file[QOI_HEADER_SIZE + 1] = 253
    /\ img.width = 2 /\ img.height = 1 /\ img.channels = 4
    /\ rd.px_pos = rd.px_end /\ rd.px_end = 8 /\ ~heap.oob

\* The file is one of those qoi_read must refuse: the header is cut short,
\* or declares a zero dimension or a channel count other than 3 and 4, or
\* the decoder came to the end of the stream with pixels still missing.
QoiMalformed ==
    \/ Len(file) < QOI_HEADER_SIZE
    \/ QoiDeclares /\ (QoiWidth = 0 \/ QoiHeight = 0 \/ file[13] \notin {3, 4})
    \/ rd.fn = "qoi_read" /\ rd.px_pos < rd.px_end /\ rd.pos >= Len(file)

(* C16: truncated and malformed QOI files.  For a file whose header is cut *)
(* short, whose op stream ends (possibly within the payload of an op)      *)
(* before width*height pixels were produced, or which declares a zero      *)
(* dimension or a channel count other than 3 and 4, qoi_read returns       *)
(* failure and the caller is left with no image: img.pixels is NULL.       *)
C16_QoiTruncated ==
    (QoiReturned /\ ret.at # "fopen" /\ QoiMalformed) =>
        /\ ~ret.ok
        /\ img.pixels = "NULL"

\* The part of it that holds: qoi_read returns failure for these files and
\* no buffer stays allocated.
QoiMalformedFails ==
    (QoiReturned /\ ret.at # "fopen" /\ QoiMalformed) => (~ret.ok /\ heap.state # "live")

\* A stream that ends within the payload of an RGB op was refused.
QoiPayloadCutShort ==
    /\ QoiReturned /\ ~ret.ok /\ ret.at = "eof"
    /\ Len(file) = QOI_HEADER_SIZE + 2 /\ file[QOI_HEADER_SIZE + 1] = QOI_OP_RGB

(* ---- the BMP writer ---- *)

\* ceil(width*3/4)*4
PaddedRow(width) == ((width * 3 + 3) \div 4) * 4

\* The byte j (from 0) of the row k (from 0) of the pixel data of the file.
FileRowByte(k, j) == file[BMP_FH_SIZE + BMP_IH_SIZE + k * PaddedRow(src.width) + j + 1]

\* bmp_write has returned success.
BmpWritten == pc = "ret" /\ ret.fn = "bmp_write" /\ ret.ok

\* The headers of the file bmp_write wrote and the length of the file.
BmpHeadersRight ==
    LET total == BMP_FH_SIZE + BMP_IH_SIZE + PaddedRow(src.width) * src.height
    IN /\ Len(file) = total
       /\ total <= UINT32_MAX
       /\ SubSeq(file, 1, BMP_FH_SIZE)
            = bmp_file_header(19778, total, 54)
       /\ SubSeq(file, BMP_FH_SIZE + 1, BMP_FH_SIZE + BMP_IH_SIZE)
            = bmp_info_header(40, src.width, src.height, 1, 24, 0,
                              PaddedRow(src.width) * src.height)
       /\ src.height > 0

\* The rows of the file: row k holds row height-1-k of the image as B, G, R
\* per pixel, followed by zeros.
BmpRowsRight ==
    \A k \in 0..(src.height - 1), j \in 0..(PaddedRow(src.width) - 1) :
        FileRowByte(k, j)
          = IF j < src.width * 3
            THEN SrcPx(src, (src.height - 1 - k) * src.width + (j \div 3) + 1)[3 - (j % 3)]
            ELSE 0

\* An image whose BMP would not fit 32 bits is refused.
BmpTooLargeRefused ==
    (pc = "ret" /\ ret.fn = "bmp_write"
       /\ BMP_FH_SIZE + BMP_IH_SIZE + PaddedRow(src.width) * src.height > UINT32_MAX)
        => ~ret.ok

(* C17: layout of the file bmp_write writes.  For every image it is a      *)
(* 14-byte and a 40-byte header and height rows: 24 bits, positive height, *)
(* offset 54, size field = 54 + row bytes * height = length of the file;   *)
(* each row is ceil(width*3/4)*4 bytes, row height-1 of the image first,   *)
(* B, G, R per pixel and zeros after the first width*3 bytes, no access    *)
(* having left the buffers; an image whose file does not fit 32 bits is    *)
(* refused.                                                                *)
C17_BmpLayout ==
    /\ BmpWritten => (BmpHeadersRight /\ BmpRowsRight /\ ~wr.oob)
    /\ BmpTooLargeRefused

\* The layout as far as no int index of the pixel loop overflows.
BmpLayoutWithoutOverflow ==
    /\ (BmpWritten /\ ~LoopOverflows(src.width, 3, src.channels, FALSE))
          => (BmpHeadersRight /\ BmpRowsRight /\ ~wr.oob)
    /\ BmpWritten => BmpHeadersRight
    /\ BmpTooLargeRefused

\* A 4-channel image of two rows was written, and an image too large for a
\* BMP was refused.
BmpTwoRowsWritten ==
    BmpWritten /\ src.height = 2 /\ src.width = 2 /\ src.channels = 4 /\ BmpRowsRight
BmpTooLargeSeen ==
    pc = "ret" /\ ret.fn = "bmp_write" /\ ret.at = "file_size"

(* ------------------------------------------------ the decoder's cache *)

\* The decoder is about to process a RUN op: the loop runs on and the next
\* byte of the file is a RUN byte.
AtRunOp ==
    /\ pc = "qr_loop"
    /\ rd.px_pos < rd.px_end
    /\ rd.pos < Len(file)
    /\ file[rd.pos + 1] # QOI_OP_RGB
    /\ file[rd.pos + 1] # QOI_OP_RGBA
    /\ BitAnd(file[rd.pos + 1], QOI_MASK_2) = QOI_OP_RUN

\* The slot of the running pixel's hash holds the running pixel.
CacheConsistent == rd.index[PxHash(rd.px)] = rd.px

\* No op but RUN ops has been decoded yet: the running pixel and the cache
\* are as qoi_read initialised them.
CacheUntouched == rd.px = StartPx /\ rd.index = ZeroIndex

\* C18 as stated: whenever the QOI decoder processes a RUN op, the slot
\* at hash(running pixel) holds the running pixel, also when the RUN is
\* the first op of the stream.
C18_RunCacheConsistent_AsStated == AtRunOp => CacheConsistent

\* C18, amended: whenever the QOI decoder processes a RUN op, the slot at
\* hash(running pixel) holds the running pixel, unless only RUN ops have
\* been decoded so far: then the running pixel is (0,0,0,255), the cache
\* is all zero and slot 53 holds (0,0,0,0), not the running pixel.
C18_RunCacheConsistent ==
    AtRunOp => \/ CacheConsistent
               \/ CacheUntouched /\ rd.index[PxHash(StartPx)] = <<0, 0, 0, 0>>

\* A RUN op is processed after an op that changed the running pixel.
C18_Witness == AtRunOp /\ rd.ops > 0 /\ rd.px # StartPx /\ CacheConsistent

\* A RUN op is processed as the first op of the stream.
RunIsFirstOp == AtRunOp /\ rd.ops = 0 /\ ~CacheConsistent

\* The step decodes one whole op.
OpDecoded == pc = "qr_loop" /\ rd'.ops = rd.ops + 1

\* The first byte of the op a step decodes.
OpByte == file[rd.pos + 1]

\* The op is an INDEX op, a RUN op.
IsIndexOp(b1) == BitAnd(b1, QOI_MASK_2) = QOI_OP_INDEX
IsRunOp(b1) ==
    b1 # QOI_OP_RGB /\ b1 # QOI_OP_RGBA /\ BitAnd(b1, QOI_MASK_2) = QOI_OP_RUN

\* C19: the decoder's cache changes only when a DIFF, LUMA, RGB or RGBA op
\* emits a pixel (slot hash(pixel) := pixel); decoding an INDEX op or a
\* RUN op leaves every cache slot unchanged, whatever the op stream.
C19_CacheChanges ==
    [][OpDecoded =>
         IF IsIndexOp(OpByte) \/ IsRunOp(OpByte)
         THEN rd'.index = rd.index
         ELSE rd'.index = [rd.index EXCEPT ![PxHash(rd'.px)] = rd'.px]]_vars

\* What the decoder does: a RUN op leaves the cache unchanged, and every
\* other op, INDEX included, stores the pixel it emits in the slot of the
\* pixel's hash.
CacheStoresAllButRuns ==
    [][OpDecoded =>
         IF IsRunOp(OpByte)
         THEN rd'.index = rd.index
         ELSE rd'.index = [rd.index EXCEPT ![PxHash(rd'.px)] = rd'.px]]_vars

\* RGB (2,1,0) then INDEX 53 have been decoded: the INDEX op read the
\* untouched slot 53 and cleared slot 0, which held (2,1,0,255).
IndexOpClearedSlot ==
    /\ pc = "qr_loop"
    /\ rd.ops = 2
    /\ SubSeq(file, QOI_HEADER_SIZE + 1, rd.pos) = <<254, 2, 1, 0, 53>>
    /\ PxHash(<<2, 1, 0, 255>>) = 0
    /\ rd.index[0] = <<0, 0, 0, 0>>

\* An INDEX op of a slot the decoder has written leaves the cache as it is.
IndexOpOfStoredSlot ==
    /\ pc = "qr_loop"
    /\ rd.ops = 2
    /\ SubSeq(file, QOI_HEADER_SIZE + 1, rd.pos) = <<254, 2, 1, 0, 0>>
    /\ rd.index = [ZeroIndex EXCEPT ![0] = <<2, 1, 0, 255>>]

(* ------------------------------------------- what the decoder depends on *)

RECURSIVE qoi_read_loop(_, _, _, _)
\* The loop of qoi_read run to its end on the file f: st holds the file
\* position, the cache, the running pixel, the output cursor and the heap.
qoi_read_loop(f, ch, px_end, st) ==
    IF ~qoi_loop_runs(st.px_pos, px_end)
    THEN [ok |-> TRUE, heap |-> st.heap]
    ELSE LET avail == Len(f) - st.pos
             b1 == f[st.pos + 1]
             need == qoi_payload(b1)
         IN IF avail < 1 \/ avail - 1 < need
            THEN [ok |-> FALSE, heap |-> Free(st.heap)]
            ELSE LET pl == SubSeq(f, st.pos + 2, st.pos + 1 + need)
                     pos == st.pos + 1 + need
                 IN IF b1 # QOI_OP_RGB /\ b1 # QOI_OP_RGBA
                       /\ BitAnd(b1, QOI_MASK_2) = QOI_OP_RUN
                    THEN LET r == qoi_run_loop(qoi_run_length(b1), st.heap, st.px_pos,
                                               px_end, st.px, ch)
                         IN qoi_read_loop(f, ch, px_end,
                                [st EXCEPT !.pos = pos, !.px_pos = r.px_pos,
                                           !.heap = r.heap])
                    ELSE LET px == qoi_decode_px(b1, pl, st.px, st.index)
                         IN qoi_read_loop(f, ch, px_end,
                                [st EXCEPT !.pos = pos, !.px = px,
                                           !.index = qoi_index_store(@, px),
                                           !.px_pos = @ + ch,
                                           !.heap = WritePx(@, st.px_pos, px, ch)])

\* qoi_read of the file f when fopen and malloc succeed: the result and the
\* Image.
qoi_read(f) ==
    LET h == qoi_read_header(f, TRUE)
    IN IF h.at # "ok"
       THEN [ok |-> FALSE, width |-> 0, height |-> 0, channels |-> 0, pixels |-> <<>>]
       ELSE LET r == qoi_read_loop(f, h.channels,
                                   (h.pixel_count * ToSize(h.channels)) % (SIZE_MAX + 1),
                                   [pos |-> QOI_HEADER_SIZE, index |-> ZeroIndex,
                                    px |-> StartPx, px_pos |-> 0,
                                    heap |-> Malloc(NoHeap, h.pixel_bytes, TRUE)])
            IN [ok |-> r.ok, width |-> h.width, height |-> h.height,
                channels |-> h.channels, pixels |-> r.heap.data]

\* The eight bytes that end a well-formed stream.
QoiEndMarker == <<0, 0, 0, 0, 0, 0, 0, 1>>

\* What may follow the last needed op: nothing, the end marker, the marker
\* corrupted, a byte and the marker, and what the file holds.
StreamTails ==
    { <<>>, QoiEndMarker, <<0, 0, 0, 0, 0, 0, 0, 2>>, <<255>> \o QoiEndMarker,
      SubSeq(file, rd.pos + 1, Len(file)) }

\* qoi_read has returned true.
QoiDecodedOk == QoiReturned /\ ret.ok

\* The Image and the success of a finished decode are those of the consumed
\* part of the file followed by any tail.
TailIgnored ==
    QoiDecodedOk =>
        /\ rd.px_pos >= rd.px_end
        /\ \A tail \in StreamTails :
              LET r == qoi_read(SubSeq(file, 1, rd.pos) \o tail)
              IN /\ r.ok
                 /\ r.pixels = heap.data
                 /\ r.width = img.width /\ r.height = img.height
                 /\ r.channels = img.channels

\* C20: QOI decoding stops when the output cursor reaches
\* width*height*channels (no op is decoded once it is there); the Image
\* and the success depend only on the header and the ops consumed up to
\* there: with the tail after the last needed op missing, corrupted or
\* extended, the file decodes to the same Image as the well-formed stream.
C20_TailIgnored ==
    /\ []TailIgnored
    /\ [][OpDecoded => rd.px_pos < rd.px_end]_vars

\* A file whose last needed op is followed by something that is not the
\* end marker has been decoded.
C20_Witness ==
    /\ QoiDecodedOk
    /\ rd.ops > 0
    /\ rd.pos < Len(file)
    /\ SubSeq(file, rd.pos + 1, Len(file)) # QoiEndMarker

\* A file that ends with its last needed op has been decoded.
TailMissingDecoded == QoiDecodedOk /\ rd.ops > 0 /\ rd.pos = Len(file)

(* ------------------------------------- specification of the QOI encoder *)

\* The colours of the images to encode: the palette and white, whose
\* plain-integer differences from the start pixel are 255.
EncPalette == Palette \cup { <<255, 255, 255, 255>> }

EncTails(n) == UNION { [1..k -> EncPalette] : k \in 0..n }

\* The images to encode: a leading run, short or long, and a tail.
EncodePixels ==
    { [i \in 1..L |-> P] \o t : P \in EncPalette, L \in ShortRuns, t \in EncTails(MaxTail) }
    \cup
    { [i \in 1..L |-> P] \o t : P \in EncPalette, L \in LongRuns,
                                t \in EncTails(MaxLongTail) }

EncodeInit ==
    /\ size_max \in {SizeMaxNarrow, SizeMaxWide}
    /\ max_pixels = 0
    /\ pc = "qoi_write"
    /\ ret = NoRet
    /\ \E pxs \in EncodePixels, ch \in {3, 4} :
          src = [pixels |-> Flatten(pxs, ch), width |-> Shape(Len(pxs))[1],
                 height |-> Shape(Len(pxs))[2], channels |-> ch]
    /\ file = <<>>
    /\ img = ZeroImg
    /\ heap = NoHeap
    /\ wr = NoLocals
    /\ rd = NoLocals
    /\ ar = NoAr
    /\ mn = NoMain

EncodeNext == QoiWriteBegin \/ QoiWritePixel \/ QoiWriteEnd

SpecEncode == EncodeInit /\ [][EncodeNext]_vars

\* The step is an iteration of the encoder's loop.
PixelEncoded == pc = "qw_loop" /\ wr'.i = wr.i + 1

\* The bytes the iteration appended, and those after the RUN byte of a
\* run that was pending when a different pixel came.
Emitted == SubSeq(wr'.data, Len(wr.data) + 1, Len(wr'.data))
EmittedOp ==
    IF wr.run > 0 /\ wr'.px # wr.px_prev
    THEN SubSeq(Emitted, 2, Len(Emitted)) ELSE Emitted

\* The kind of the op with first byte b1, and its length in bytes.
OpKind(b1) ==
    IF b1 = QOI_OP_RGB THEN "RGB"
    ELSE IF b1 = QOI_OP_RGBA THEN "RGBA"
    ELSE IF BitAnd(b1, QOI_MASK_2) = QOI_OP_INDEX THEN "INDEX"
    ELSE IF BitAnd(b1, QOI_MASK_2) = QOI_OP_DIFF THEN "DIFF"
    ELSE IF BitAnd(b1, QOI_MASK_2) = QOI_OP_LUMA THEN "LUMA"
    ELSE "RUN"
OpLen(kind) ==
    CASE kind = "RGB" -> 4 [] kind = "RGBA" -> 5 [] kind = "LUMA" -> 2 [] OTHER -> 1

\* The op the priority rule selects for px after prev with the cache index.
SelectedOp(px, prev, index) ==
    IF index[PxHash(px)] = px THEN "INDEX"
    ELSE IF px[4] # prev[4] THEN "RGBA"
    ELSE IF \A k \in 1..3 : px[k] - prev[k] \in -2..1 THEN "DIFF"
    ELSE IF /\ px[2] - prev[2] \in -32..31
            /\ (px[1] - prev[1]) - (px[2] - prev[2]) \in -8..7
            /\ (px[3] - prev[3]) - (px[2] - prev[2]) \in -8..7
    THEN "LUMA"
    ELSE "RGB"

\* C21: for each pixel that differs from the previous pixel the encoder
\* emits exactly one op, chosen by strict priority: INDEX on a cache hit;
\* else, with the alpha unchanged, DIFF when the r,g,b differences (plain
\* integers) are in [-2,1], else LUMA when the green difference is in
\* [-32,31] and red-minus-green and blue-minus-green are in [-8,7], else
\* RGB; with the alpha changed, RGBA; and after a non-INDEX op the cache
\* slot at the pixel's hash holds the pixel.
C21_OpSelection ==
    [][(PixelEncoded /\ wr'.px # wr.px_prev) =>
         LET kind == SelectedOp(wr'.px, wr.px_prev, wr.index)
         IN /\ Len(EmittedOp) = OpLen(kind)
            /\ OpKind(EmittedOp[1]) = kind
            /\ kind # "INDEX" => wr'.index[PxHash(wr'.px)] = wr'.px
            /\ kind = "INDEX" => wr'.index = wr.index]_vars

\* The last op written is the op of a pixel of the given kind and bytes.
LastOpIs(bytes) ==
    /\ pc = "qw_loop"
    /\ Len(wr.data) >= QOI_HEADER_SIZE + Len(bytes)
    /\ SubSeq(wr.data, Len(wr.data) - Len(bytes) + 1, Len(wr.data)) = bytes

\* White after the start pixel has gone out as RGB: the differences are
\* 255, not -1.
C21_Witness ==
    /\ LastOpIs(<<QOI_OP_RGB, 255, 255, 255>>)
    /\ wr.i = 2 /\ SrcPx(src, 1) = StartPx
    /\ wr.index[PxHash(wr.px)] = wr.px

\* Ops of the other kinds have gone out.
EncodedLuma == LastOpIs(<<U8(QOI_OP_LUMA + 12 + 32), U8((-2 + 8) * 16 + (-3 + 8))>>) /\ wr.i = 3
EncodedDiff == LastOpIs(<<U8(QOI_OP_DIFF + 3 * 16 + 3 * 4 + 2)>>) /\ wr.px = <<1, 1, 0, 255>>
EncodedRgba == LastOpIs(<<QOI_OP_RGBA, 1, 1, 0, 128>>)
EncodedIndex == LastOpIs(<<QOI_OP_INDEX + 61>>) /\ wr.i = 4

(* ---- runs ---- *)

\* The RUN byte of a run of count pixels: 0xC0 | (count - 1).
RunByte(count) == QOI_OP_RUN + (count - 1)

RECURSIVE StreamPixels(_, _)
\* The number of pixels the ops of s from position pos (from 1) on stand
\* for: the count of a RUN op and 1 for any other op.
StreamPixels(s, pos) ==
    IF pos > Len(s) THEN 0
    ELSE LET kind == OpKind(s[pos])
         IN (IF kind = "RUN" THEN BitAnd(s[pos], 63) + 1 ELSE 1)
            + StreamPixels(s, pos + OpLen(kind))

\* What an iteration of the encoder's loop does with the pending run.
RunStep ==
    PixelEncoded =>
        IF wr'.px = wr.px_prev
        THEN \* the pixel extends the run: flushed at 62 and at the last pixel
             LET count == wr.run + 1
             IN IF count = 62 \/ wr.i = wr.pixel_count - 1
                THEN /\ Emitted = << RunByte(count) >>
                     /\ count \in 1..62
                     /\ wr'.run = 0
                ELSE /\ Emitted = <<>>
                     /\ wr'.run = count
        ELSE \* the pixel differs: a pending run goes out before its op
             /\ wr'.run = 0
             /\ IF wr.run > 0
                THEN /\ Emitted[1] = RunByte(wr.run)
                     /\ wr.run \in 1..62
                     /\ Len(Emitted) = 1 + OpLen(OpKind(Emitted[2]))
                     /\ OpKind(Emitted[2]) # "RUN"
                ELSE /\ Len(Emitted) = OpLen(OpKind(Emitted[1]))
                     /\ OpKind(Emitted[1]) # "RUN"

\* The stream so far accounts for the pixels seen, no pending run reaches
\* 62, and none is pending after the last pixel.
RunsAccounted ==
    pc = "qw_loop" =>
        /\ wr.run \in 0..61
        /\ StreamPixels(wr.data, QOI_HEADER_SIZE + 1) + wr.run = wr.i
        /\ wr.i = wr.pixel_count =>
              /\ wr.run = 0
              /\ StreamPixels(wr.data, QOI_HEADER_SIZE + 1) = src.width * src.height

\* C22: a pending run is flushed exactly when it reaches 62, when the
\* last pixel of the image is part of it, or when the next pixel differs
\* (before that pixel's own op); every RUN byte is 0xC0 | (count-1) with
\* count in 1..62, so none is 0xFE or 0xFF; the pending run counter is 0
\* after the last pixel; and the counts of the RUN ops plus the number of
\* the other ops is width*height.
C22_RunHandling ==
    /\ []RunsAccounted
    /\ [][RunStep]_vars

\* 70 equal pixels that are not the start pixel and one other pixel have
\* been encoded: an op, a run flushed at 62, a run of 7 flushed by the
\* pixel that differs, and that pixel's op.
C22_Witness ==
    /\ pc = "qw_loop" /\ wr.i = wr.pixel_count /\ wr.pixel_count = 71
    /\ SrcPx(src, 1) = <<24, 0, 0, 255>> /\ SrcPx(src, 70) = <<24, 0, 0, 255>>
    /\ SrcPx(src, 71) = <<0, 0, 0, 0>>
    /\ SubSeq(wr.data, QOI_HEADER_SIZE + 1, Len(wr.data))
         = <<QOI_OP_RGB, 24, 0, 0, RunByte(62), RunByte(7), QOI_OP_INDEX + 0>>
    /\ RunByte(62) = 253

\* The last pixel of the image was part of a run.
RunFlushedAtEnd ==
    /\ pc = "qw_loop" /\ wr.i = wr.pixel_count /\ wr.pixel_count = 3
    /\ wr.data[Len(wr.data)] = RunByte(2)

(* ------------------------------------------ rows and channels of bmp_read *)

\* bmp_read has returned true.
BmpAccepted == BmpReturned /\ ret.ok

\* The offset of the pixel data the file declares, the bytes of a file
\* pixel and the length of a file row with its padding.
BmpOffset == rd32u(SubSeq(file, 11, 14))
BmpPixelBytes == BmpBitCount \div 8
BmpFileRow == ((BmpWidth * BmpPixelBytes + 3) \div 4) * 4

\* The byte c (0 is B, 1 is G, 2 is R, 3 is A) of the pixel x of the k-th
\* row stored in the file, all from 0.
BmpFileByte(k, x, c) == file[BmpOffset + k * BmpFileRow + x * BmpPixelBytes + c + 1]

\* The byte c (0 is R, 1 is G, 2 is B, 3 is A) of the pixel x of the row r
\* of the Image.
ImageByte(r, x, c) == heap.data[(r * img.width + x) * img.channels + c + 1]

\* The Image row the k-th file row belongs to.
ImageRowOf(k) == IF BmpHeight < 0 THEN k ELSE Abs(BmpHeight) - 1 - k

\* The Image of an accepted BMP: its channels, its size, and every byte of
\* it the swapped byte of the file pixel at the same place of the row the
\* height's sign selects; nothing else (no padding byte) is in the Image
\* and no access left the buffers.
BmpMapped ==
    /\ img.channels = (IF BmpBitCount = 32 THEN 4 ELSE 3)
    /\ img.width = BmpWidth /\ img.height = Abs(BmpHeight)
    /\ heap.state = "live"
    /\ Len(heap.data) = img.width * img.height * img.channels
    /\ \A k \in 0..(img.height - 1), x \in 0..(img.width - 1), c \in 0..(img.channels - 1) :
          ImageByte(ImageRowOf(k), x, c) = BmpFileByte(k, x, IF c = 3 THEN 3 ELSE 2 - c)
    /\ ~rd.oob

\* C23: for an accepted BMP with declared height h, the k-th row stored
\* in the file becomes image row k when h < 0 and image row |h|-1-k when
\* h > 0; within each pixel file bytes B,G,R(,A) become image bytes
\* R,G,B(,A); padding bytes are never copied into the Image; a 32-bit file
\* yields 4 channels and a 24-bit file 3.
C23_BmpRowMapping == BmpAccepted => BmpMapped

\* The mapping as far as no int index of the pixel loop overflows.
BmpMappingWithoutOverflow ==
    (BmpAccepted /\ ~LoopOverflows(img.width, img.channels, BmpPixelBytes, img.channels = 4))
        => BmpMapped

\* Accepted files of two rows of three pixels, with padding in the 24-bit
\* rows: bottom-up and top-down, 24 and 32 bits.
BottomUpMapped ==
    /\ BmpAccepted /\ BmpHeight = 2 /\ BmpWidth = 3 /\ BmpBitCount = 24 /\ BmpMapped
    /\ BmpFileRow = 12
    /\ ImageByte(1, 0, 0) = BmpFileByte(0, 0, 2)
    /\ BmpFileByte(0, 0, 2) # BmpFileByte(0, 0, 0)
TopDownMapped ==
    /\ BmpAccepted /\ BmpHeight = -2 /\ BmpWidth = 1 /\ BmpBitCount = 32 /\ BmpMapped
    /\ ImageByte(1, 0, 3) = BmpFileByte(1, 0, 3)

\* A file whose row indices overflow int was accepted.
BmpWideAccepted ==
    BmpAccepted /\ LoopOverflows(img.width, img.channels, BmpPixelBytes, img.channels = 4)

(* ------------------------------------------------ decode before encode *)

\* What the output path holds: the writer works on file, main keeps what
\* the path holds before and after.
OutputNow == IF mn.stage = "write" THEN file ELSE mn.output

\* An encoder has been invoked.
WriterInvoked == WriterRunning \/ ret.fn \in Writers

\* The decoder main called has returned true with the whole Image: its
\* loop ran to the end and the buffer holds width*height*channels bytes.
DecodedWhole ==
    /\ mn.have_pixels
    /\ rd.fn \in Readers
    /\ IF rd.fn = "qoi_read" THEN rd.px_pos >= rd.px_end ELSE rd.y >= img.height
    /\ img.pixels = "buf"
    /\ Len(heap.data) = img.width * img.height * img.channels
    /\ src = [pixels |-> heap.data, width |-> img.width, height |-> img.height,
              channels |-> img.channels]

\* C24: in a conversion no encoder is invoked and the output path is not
\* opened, created or truncated unless the decoder has returned success
\* with the complete Image; a failed decode leaves the output path
\* untouched and the process ends with a failure exit code; the exit code
\* is success only when both decode and encode succeeded.
C24_DecodeBeforeEncode ==
    mn.stage # "none" =>
        /\ (WriterInvoked \/ OutputNow # OldOutput) => DecodedWhole
        /\ WriterRunning => (ret.fn \in Readers /\ ret.ok /\ heap.state = "live")
        /\ (ret.fn \in Readers /\ ~ret.ok)
              => /\ ~WriterRunning /\ OutputNow = OldOutput
                 /\ mn.exit_code = "EXIT_FAILURE"
        /\ ~mn.have_pixels => (mn.exit_code = "EXIT_FAILURE" /\ OutputNow = OldOutput)
        /\ mn.exit_code = "EXIT_SUCCESS"
              => (mn.have_pixels /\ ret.fn \in Writers /\ ret.ok)

\* A conversion has ended with success: the output was written after the
\* decoder had returned the Image.
C24_Witness ==
    /\ Exited /\ mn.exit_code = "EXIT_SUCCESS"
    /\ mn.output # OldOutput /\ DecodedWhole
    /\ mn.from_fmt = "bmp_read" /\ mn.to_fmt = "qoi_write"

\* A conversion whose decoder failed has ended: output untouched, failure.
FailedDecodeLeftOutput ==
    /\ Exited /\ ret.fn \in Readers /\ ~ret.ok /\ heap.mallocs = 1
    /\ mn.output = OldOutput /\ mn.exit_code = "EXIT_FAILURE"

\* A conversion whose encoder failed after truncating the output has ended
\* with failure.
FailedEncodeExit ==
    /\ Exited /\ ret.fn \in Writers /\ ~ret.ok
    /\ mn.output # OldOutput /\ mn.exit_code = "EXIT_FAILURE"

(* ---- the output buffer ---- *)

\* 14 + width*height*(channels+1) + 8 for the image im.
QoiBufferSize(im) ==
    QOI_HEADER_SIZE + im.width * im.height * (im.channels + 1) + QOI_END_MARKER_SIZE

\* C25: for every valid Image, at every point of the encoding loop and
\* after the end marker is appended, the write position does not exceed
\* the allocated size 14 + width*height*(channels+1) + 8, also in an
\* iteration that emits a pending RUN byte and an RGB or RGBA op.
C25_OutputBound ==
    wr.fn = "qoi_write" =>
        /\ wr.max_size = QoiBufferSize(src)
        /\ wr.p = Len(wr.data)
        /\ wr.p <= wr.max_size
        /\ pc = "qw_loop" =>
              wr.p + QOI_END_MARKER_SIZE
                 <= wr.max_size - (wr.pixel_count - wr.i) - wr.run * src.channels

\* An image whose every pixel took channels + 1 bytes has been encoded:
\* the buffer is full.
C25_Witness ==
    /\ pc = "ret" /\ ret.fn = "qoi_write" /\ wr.fn = "qoi_write"
    /\ src.channels = 4 /\ SrcCount(src) = 2
    /\ wr.p = wr.max_size /\ wr.p = QoiBufferSize(src)

\* An iteration has emitted the RUN byte of a pending run and an RGBA op.
RunAndRgbaEmitted ==
    /\ LastOpIs(<<RunByte(2), QOI_OP_RGBA, 1, 1, 0, 128>>)
    /\ wr.i = 3

(* --------------------------- specification of the QOI decoder's progress *)

\* Ops for the decoder: runs of 1 and 2, INDEX, DIFF, LUMA whole and cut
\* short, RGB, RGBA.
DecodeTokens ==
    { <<192>>, <<193>>, <<0>>, <<126>>, <<170, 136>>, <<170>>,
      <<254, 1, 2, 3>>, <<255, 1, 2, 3, 4>> }

RECURSIVE DecodeStreams(_)
DecodeStreams(n) ==
    IF n = 0 THEN { <<>> }
    ELSE DecodeStreams(n - 1) \cup { s \o t : s \in DecodeStreams(n - 1), t \in DecodeTokens }

QoiDecodeInit ==
    /\ size_max \in {SizeMaxNarrow, SizeMaxWide}
    /\ max_pixels \in {0, 2}
    /\ pc = "qoi_read"
    /\ file \in { QoiHeader(qoi_write32be(QOI_MAGIC), d, c) \o b :
                     d \in { <<1, 1>>, <<2, 1>>, <<2, 2>> }, c \in {3, 4},
                     b \in DecodeStreams(MaxOps) }
    /\ ret = NoRet
    /\ src = NoSrc
    /\ img = ZeroImg
    /\ heap = NoHeap
    /\ wr = NoLocals
    /\ rd = NoLocals
    /\ ar = NoAr
    /\ mn = NoMain

QoiDecodeNext == QoiReadBegin \/ QoiReadOp \/ QoiReadEnd

\* qoi_read is sequential code: it takes its next step as long as it has one.
SpecQoiDecode == QoiDecodeInit /\ [][QoiDecodeNext]_vars /\ WF_vars(QoiDecodeNext)

\* The step is an iteration of the decode loop.
LoopIteration == pc = "qr_loop" /\ qoi_loop_runs(rd.px_pos, rd.px_end)

\* An iteration returns failure or moves the cursor on by a pixel or more.
IterationAdvances ==
    LoopIteration =>
        \/ pc' = "ret" /\ ~ret'.ok
        \/ /\ pc' = "qr_loop"
           /\ rd'.px_pos >= rd.px_pos + img.channels
           /\ rd'.ops = rd.ops + 1

\* The iterations made are no more than the pixels the cursor has passed,
\* hence no more than width*height.
IterationsBounded ==
    pc = "qr_loop" =>
        /\ rd.ops * img.channels <= rd.px_pos
        /\ rd.px_end = img.width * img.height * img.channels
        /\ qoi_loop_runs(rd.px_pos, rd.px_end) => rd.ops < img.width * img.height
        /\ rd.ops <= img.width * img.height

\* C26: the QOI decode loop terminates for every input: each iteration
\* either returns failure or advances the output cursor by at least one
\* pixel (a RUN op emits at least one pixel), so after at most
\* width*height iterations the decoder has returned success or failure.
C26_DecodeTerminates ==
    /\ [][IterationAdvances]_vars
    /\ []IterationsBounded
    /\ <>QoiReturned

\* A RUN of one pixel has been decoded as the second op: the cursor moved
\* on by one pixel and the decoder went on.
C26_Witness ==
    /\ pc = "qr_loop" /\ rd.ops = 2
    /\ file[rd.pos] = 192
    /\ rd.px_pos = 2 * img.channels /\ rd.px_pos < rd.px_end

\* The decoder has returned after width*height iterations.
AllIterationsUsed ==
    QoiReturned /\ ret.ok /\ rd.ops = img.width * img.height /\ rd.ops = 2

(* ------------------------------------------- the int indices of the BMP loops *)

\* bmp_write, bmp_read is in its loop over the rows or has left it.
BmpWriting == wr.fn = "bmp_write"
BmpReading == rd.fn = "bmp_read"

\* C27: for every BMP header bmp_read accepts and every Image bmp_write
\* accepts, under any pixel ceiling, the indices x*channels + k and
\* x*bmp_channels + k computed in int for x in [0, width) never overflow
\* int, so every row access stays inside the row buffer and the pixel
\* buffer.
C27_IntIndices ==
    /\ BmpWriting => (~wr.ub /\ ~wr.oob)
    /\ BmpReading => (~rd.ub /\ ~rd.oob)

\* What holds: the accesses stay inside the buffers as long as no index
\* overflows, and an index overflows exactly when the row is wide enough
\* for (width-1)*channels + channels-1 to exceed INT_MAX.
IntIndicesOfNarrowRows ==
    /\ BmpWriting =>
          /\ ~wr.ub => ~wr.oob
          /\ wr.ub => (src.width - 1) * src.channels + 2 > INT_MAX
                        \/ (src.width - 1) * 3 + 2 > INT_MAX
    /\ (BmpReading /\ pc \in {"br_loop", "ret"}) =>
          /\ ~rd.ub => ~rd.oob
          /\ rd.ub => (img.width - 1) * img.channels + img.channels - 1 > INT_MAX

\* bmp_write has written a row whose indices overflow, the build wrapping
\* them: bytes went outside the row buffer.
BmpWriteIndexOverflow ==
    /\ BmpWriting /\ wr.ub /\ wr.oob
    /\ src.channels = 3 /\ src.width >= WideWidth /\ max_pixels = 0

\* bmp_read has stored a row whose indices overflow.
BmpReadIndexOverflow == BmpReading /\ rd.ub /\ rd.oob /\ img.width >= WideWidth

====
